---- MODULE Spec2Model ----
(***************************************************************************)
(* The backend-plugin runtime of pkg/plugins/backendplugin: one plugin     *)
(* instance behind the backendplugin.Plugin interface, either a grpcPlugin *)
(* (the managed plugin process, with the subprocesses it spawns through    *)
(* hashicorp/go-plugin) or a corePlugin (built in), and the goroutines     *)
(* that call its lifecycle and capability methods.                         *)
(*                                                                         *)
(* A subprocess handle (a plugin.Client) is a number 1..MaxStarts, 0 is    *)
(* nil.  A plugin client is a record [h, kind]: the handle whose RPC       *)
(* connection it was constructed on, and the constructor that built it.    *)
(*                                                                         *)
(* Spec is the plugin instance under any calls.  SpecOnce restricts it to  *)
(* one Start and one Stop.  SpecTrace is the grpcPlugin with the calls it  *)
(* makes on its collaborators recorded.  SpecRegistry is the plugin        *)
(* registry as the plugin loaders of pkg/plugins drive it.  SpecProgress   *)
(* is the grpcPlugin under fair scheduling.                                *)
(*                                                                         *)
(* Beside the plugin instance stand four components of their own:          *)
(* DataSourcePlugin with its start callbacks and DataQuery                 *)
(* (SpecDataSource), Server.Run and Server.Shutdown (SpecServer), the      *)
(* test data stream handler (SpecStream, and SpecOneStream for one stream  *)
(* under fair scheduling), and the Azure credential cache                  *)
(* (SpecCredential).                                                       *)
(***************************************************************************)
EXTENDS Integers, FiniteSets, Sequences, TLC

\* ---- bounds ----
NumThreads == 2
MaxStarts == 2

Threads == 1..NumThreads
Handles == 1..MaxStarts

Methods == {"CollectMetrics", "CheckHealth", "CallResource",
            "SubscribeStream", "PublishStream", "RunStream"}

\* NegotiatedVersion(): 0 is "unspecified"
Versions == {0, 1, 2}

NilClient == [h |-> 0, kind |-> "nil"]
PluginClients == {NilClient} \cup [h : Handles, kind : {"v1", "v2"}]

\* the handler fields of corePlugin (QueryDataHandler serves DataQuery only)
CoreHandlers == {"CheckHealthHandler", "CallResourceHandler", "StreamHandler"}

VARIABLES
    client,          \* p.client: the subprocess handle, 0 = nil
    pluginClient,    \* p.pluginClient
    decommissioned,  \* p.decommissioned
    proc,            \* per handle: "none" (no OS process), "running", "exited"
    nHandles,        \* handles created by clientFactory so far
    mutexW,          \* p.mutex: the goroutine holding the exclusive lock, 0 = none
    mutexR,          \* p.mutex: the goroutines holding the shared lock
    pc,              \* per goroutine: its position
    method,          \* per goroutine: the corePlugin method it is in
    got,             \* per goroutine: what getPluginClient returned
    ret,             \* per goroutine: the value its call is returning
    lastStart,       \* history: outcome of the latest Start that returned
    doubleStart,     \* history: the latest Start took the lock after an earlier Start, no Stop between
    stopSince,       \* history: Stop ran its body since the latest Start took the lock
    stopPhase,       \* history, where Stop is called once: 0 not called, 1 called, 2 returned
    decReturned,     \* history: some Decommission() has returned
    kind,            \* the implementation behind the interface: "grpc" or "core"
    handlers,        \* corePlugin: the handlers supplied at construction
    trace,           \* whether the calls made on collaborators are recorded (fixed per behaviour)
    invoked,         \* trace, per goroutine: the plugin-client methods its capability call invoked
    ctorCalls,       \* trace: the client constructors the Start in progress invoked
    negotiated,      \* trace: NegotiatedVersion() of the current handle, NoVersion before negotiation
    nStops,          \* trace: Stop bodies run since the latest Start took the lock (capped at 2)
    stopSnap,        \* trace: the state the Stop in progress found
    plugins,         \* backendplugin.Manager: per plugin id, the registered entry or NoEntry
    load,            \* the plugin Load call in progress, NoLoad when there is none
    loadRet,         \* what the Load call in progress returns, once decided
    dsProc,          \* DataSourcePlugin: per subprocess of its backend plugin: "none", "running", "exited"
    dsStarted,       \* DataSourcePlugin: subprocesses its backend plugin has started so far
    dsClient,        \* DataSourcePlugin.client, NoDsClient = nil
    dsLegacyClient,  \* DataSourcePlugin.legacyClient, NoDsClient = nil
    dq,              \* the position of the goroutine calling DataQuery
    dsRet,           \* where the DataQuery in progress sent the query
    context,         \* Server.context (the errgroup's context): "live" or "cancelled"
    cancels,         \* history: the calls of Server.shutdownFn so far
    shutdownFinished,\* Server.shutdownFinished is closed
    shutdownOnce,    \* Server.shutdownOnce: "new", "running" (its function is executing), "done"
    groupErr,        \* Server.childRoutines: the first non-nil error a goroutine returned
    runPc,           \* Server.Run: "init", "starting", "waiting", "returned"
    nextSvc,         \* Server.Run: the service its loop looks at next
    runRet,          \* what Run returned
    svc,             \* per service: the position of its goroutine
    svcRet,          \* per service: what service.Run returned, "none" while it has not
    shPc,            \* per caller of Shutdown: its position
    shCtx,           \* per caller of Shutdown: its context, "live" or "expired"
    shErr,           \* per caller of Shutdown: what its call returned
    frame,           \* testStreamHandler.frame: per field, the stream whose value it holds, 0 = zero value
    tsPc,            \* per stream: the position of its RunStream call
    tsField,         \* per stream: the field it sets next
    tsCtx,           \* per stream: its context, "live" or "done"
    tsDrop,          \* per stream: conf.Drop > 0
    tsRet,           \* per stream: what RunStream returned
    tsPacket,        \* per stream: the frame as FrameToJSON serialised it, NoPacket when none is pending
    tsSent,          \* per stream: the packets sender.Send accepted
    tsTick,          \* per stream: what became of its latest tick
    credValue,       \* credValue: the stored credential, 0 = nil
    credLock,        \* credLock: the goroutine holding it, 0 = none
    constructed,     \* history: the credentials constructed so far
    gcPc,            \* per caller of getCredential: its position
    gcCred,          \* per caller of getCredential: its local variable credential
    gcRet            \* per caller of getCredential: what its call returned

shared == <<client, pluginClient, decommissioned, proc, nHandles>>
mutex == <<mutexW, mutexR>>
locals == <<pc, method, got, ret>>
hist == <<lastStart, doubleStart, stopSince, stopPhase, decReturned>>
config == <<kind, handlers>>
ext == <<trace, invoked, ctorCalls, negotiated, nStops, stopSnap>>
reg == <<plugins, load, loadRet>>
ds == <<dsProc, dsStarted, dsClient, dsLegacyClient, dq, dsRet>>
srv == <<context, cancels, shutdownFinished, shutdownOnce, groupErr, runPc, nextSvc, runRet,
         svc, svcRet, shPc, shCtx, shErr>>
ts == <<frame, tsPc, tsField, tsCtx, tsDrop, tsRet, tsPacket, tsSent, tsTick>>
az == <<credValue, credLock, constructed, gcPc, gcCred, gcRet>>
sub == <<ds, srv, ts, az>>
vars == <<shared, mutex, locals, hist, config, reg, ext, sub>>

NoGot == [c |-> NilClient, ok |-> FALSE]
NoVersion == -1
NoSnap == <<>>

\* ---- the plugin registry (backendplugin.Manager) and the plugin loaders ----
MaxPlugins == 2
PluginIds == 1..MaxPlugins
Factories == {"f1", "f2"}
NoEntry == [factory |-> "none", started |-> "none"]
NoLoad == [fn |-> "none"]
NoRet == [value |-> "none", err |-> "none"]

\* ---- DataSourcePlugin ----
\* a client is known by the subprocess h it talks to and by whether its data
\* plugin field (DataPlugin, DatasourcePlugin) is set
NoDsClient == [h |-> 0, data |-> FALSE]
NoDsRet == [route |-> "none", h |-> 0, live |-> FALSE]

\* a DataSourcePlugin as json decoding leaves it: no client recorded
InitDataSourcePlugin ==
    /\ dsProc = [h \in Handles |-> "none"]
    /\ dsStarted = 0
    /\ dsClient = NoDsClient
    /\ dsLegacyClient = NoDsClient
    /\ dq = "idle"
    /\ dsRet = NoDsRet

\* ---- Server ----
NumServices == 2
NumCallers == 2
Services == 1..NumServices
Callers == 1..NumCallers
NoErr == [kind |-> "nil", name |-> 0]
Canceled == [kind |-> "context.Canceled", name |-> 0]
InitError == [kind |-> "init error", name |-> 0]

\* newServer
InitServer ==
    /\ context = "live"
    /\ cancels = 0
    /\ shutdownFinished = FALSE
    /\ shutdownOnce = "new"
    /\ groupErr = NoErr
    /\ runPc = "init"
    /\ nextSvc = 1
    /\ runRet = NoErr
    /\ svc = [s \in Services |-> "unstarted"]
    /\ svcRet = [s \in Services |-> "none"]
    /\ shPc = [c \in Callers |-> "idle"]
    /\ shCtx = [c \in Callers |-> "live"]
    /\ shErr = [c \in Callers |-> "none"]

\* ---- testStreamHandler ----
NumStreams == 2
MaxPackets == 2
NumFields == 4
Streams == 1..NumStreams
Fields == 1..NumFields
NoPacket == <<>>
Paths == {"random-2s-stream", "random-flakey-stream", "random-20Hz-stream", "other"}

\* newTestStreamHandler: one frame of four fields holding one zero value each
InitTestStreamHandler ==
    /\ frame = [f \in Fields |-> 0]
    /\ tsPc = [s \in Streams |-> "idle"]
    /\ tsField = [s \in Streams |-> 0]
    /\ tsCtx = [s \in Streams |-> "live"]
    /\ tsDrop = [s \in Streams |-> FALSE]
    /\ tsRet = [s \in Streams |-> "none"]
    /\ tsPacket = [s \in Streams |-> NoPacket]
    /\ tsSent = [s \in Streams |-> 0]
    /\ tsTick = [s \in Streams |-> "none"]

\* ---- Azure credentials ----
NumGetters == 3
Getters == 1..NumGetters
NoCredRet == [cred |-> 0, err |-> "none"]

\* a managedIdentityCredential or clientSecretCredential as constructed:
\* credValue holds nothing, credLock is free
InitCredential ==
    /\ credValue = 0
    /\ credLock = 0
    /\ constructed = 0
    /\ gcPc = [g \in Getters |-> "idle"]
    /\ gcCred = [g \in Getters |-> 0]
    /\ gcRet = [g \in Getters |-> NoCredRet]

InitSub == InitDataSourcePlugin /\ InitServer /\ InitTestStreamHandler /\ InitCredential

\* the state of a freshly constructed plugin instance
InitPlugin ==
    /\ InitSub
    /\ client = 0
    /\ pluginClient = NilClient
    /\ decommissioned = FALSE
    /\ proc = [h \in Handles |-> "none"]
    /\ nHandles = 0
    /\ mutexW = 0
    /\ mutexR = {}
    /\ pc = [t \in Threads |-> "idle"]
    /\ method = [t \in Threads |-> "none"]
    /\ got = [t \in Threads |-> NoGot]
    /\ ret = [t \in Threads |-> "none"]
    /\ lastStart = "none"
    /\ doubleStart = FALSE
    /\ stopSince = FALSE
    /\ stopPhase = 0
    /\ decReturned = FALSE
    /\ invoked = [t \in Threads |-> <<>>]
    /\ ctorCalls = <<>>
    /\ negotiated = NoVersion
    /\ nStops = 0
    /\ stopSnap = NoSnap
    /\ plugins = [id \in PluginIds |-> NoEntry]
    /\ load = NoLoad
    /\ loadRet = NoRet

Init ==
    /\ InitPlugin
    /\ trace = FALSE
    /\ \/ kind = "grpc" /\ handlers = {}
       \/ kind = "core" /\ handlers \in SUBSET CoreHandlers

\* ---- sync.RWMutex ----
CanLock == mutexW = 0 /\ mutexR = {}
CanRLock == mutexW = 0

Goto(t, l) == pc' = [pc EXCEPT ![t] = l]
Return(t) == /\ pc' = [pc EXCEPT ![t] = "idle"]
             /\ method' = [method EXCEPT ![t] = "none"]
             /\ got' = [got EXCEPT ![t] = NoGot]
             /\ ret' = [ret EXCEPT ![t] = "none"]

\* ---- hashicorp/go-plugin plugin.Client, as grpcPlugin uses it ----
\* Client.Exited(): the handle's exited flag, set when its OS process has
\* been waited for; a handle that never had a process reports false.
Exited(h) == proc[h] = "exited"

\* (mutant) Kill signals the process but does not wait for it to be gone
Kill_NoWait(h) == proc

\* Client.Kill(): ends the handle's process and waits for it; with no
\* process there is nothing to kill.
Kill(h) == [proc EXCEPT ![h] = IF @ = "running" THEN "exited" ELSE @]

\* Outcomes of Client.Client(): the executable cannot be spawned; it is
\* spawned but the handshake fails and go-plugin kills it; or the RPC
\* connection is obtained.
ClientOutcomes == {"spawn_fail", "handshake_fail", "ok"}

\* Outcomes of newClientV1/newClientV2: a client, (nil, err), or (nil, nil)
CtorOutcomes == {"client", "error", "none"}

\* ---- grpcPlugin.Start ----
StartsBegun == nHandles + Cardinality({t \in Threads : pc[t] \in {"start_lock", "start_factory"}})

StartCall(t) ==
    /\ kind = "grpc"
    /\ pc[t] = "idle"
    /\ StartsBegun < MaxStarts
    /\ Goto(t, "start_lock")
    /\ UNCHANGED <<shared, mutex, method, got, ret, hist, config, sub, reg, ext>>

StartLock(t) ==
    /\ pc[t] = "start_lock"
    /\ CanLock
    /\ mutexW' = t
    /\ stopSince' = FALSE
    /\ doubleStart' = (nHandles >= 1 /\ ~stopSince)
    /\ nStops' = 0
    /\ Goto(t, "start_factory")
    /\ UNCHANGED <<shared, mutexR, method, got, ret, lastStart, stopPhase, decReturned, config, sub, reg,
                   trace, invoked, ctorCalls, negotiated, stopSnap>>

\* (mutant) a restart also clears the decommissioned flag
StartFactory_ClearsFlag(t) ==
    /\ pc[t] = "start_factory"
    /\ client' = nHandles + 1
    /\ nHandles' = nHandles + 1
    /\ decommissioned' = FALSE
    /\ negotiated' = NoVersion
    /\ Goto(t, "start_client")
    /\ UNCHANGED <<pluginClient, proc, mutex, method, got, ret, hist, config, sub, reg,
                   trace, invoked, ctorCalls, nStops, stopSnap>>

\* p.client = p.clientFactory()
StartFactory(t) ==
    /\ pc[t] = "start_factory"
    /\ client' = nHandles + 1
    /\ nHandles' = nHandles + 1
    /\ negotiated' = NoVersion
    /\ Goto(t, "start_client")
    /\ UNCHANGED <<pluginClient, decommissioned, proc, mutex, method, got, ret, hist, config, sub, reg,
                   trace, invoked, ctorCalls, nStops, stopSnap>>

\* rpcClient, err := p.client.Client(); if err != nil { return err }
StartClient(t) ==
    /\ pc[t] = "start_client"
    /\ \E o \in ClientOutcomes :
         \/ /\ o = "spawn_fail"
            /\ UNCHANGED proc
            /\ ret' = [ret EXCEPT ![t] = "err_client"]
            /\ Goto(t, "start_return")
         \/ /\ o = "handshake_fail"
            /\ proc' = [proc EXCEPT ![client] = "exited"]
            /\ ret' = [ret EXCEPT ![t] = "err_client"]
            /\ Goto(t, "start_return")
         \/ /\ o = "ok"
            /\ proc' = [proc EXCEPT ![client] = "running"]
            /\ UNCHANGED ret
            /\ Goto(t, "start_negotiate")
    /\ UNCHANGED <<client, pluginClient, decommissioned, nHandles, mutex, method, got, hist, config, sub, reg, ext>>

\* (mutant) the version test is >= 1
Constructor_FromOne(v) == IF v >= 1 THEN "v2" ELSE "v1"

\* the constructor the negotiated version selects
Constructor(v) == IF v > 1 THEN "v2" ELSE "v1"

\* (mutant) a plugin client is constructed only when none is published yet
StartNegotiate_KeepsOld(t) ==
    /\ pc[t] = "start_negotiate"
    /\ \E o \in CtorOutcomes, v \in Versions :
         /\ negotiated' = IF trace THEN v ELSE negotiated
         /\ ctorCalls' = IF trace THEN Append(ctorCalls, Constructor(v)) ELSE ctorCalls
         /\ \/ /\ o = "client"
               /\ pluginClient' = IF pluginClient = NilClient
                                  THEN [h |-> client, kind |-> Constructor(v)]
                                  ELSE pluginClient
               /\ UNCHANGED ret
               /\ Goto(t, "start_check")
            \/ /\ o = "error"
               /\ pluginClient' = NilClient
               /\ ret' = [ret EXCEPT ![t] = "err_ctor"]
               /\ Goto(t, "start_return")
            \/ /\ o = "none"
               /\ pluginClient' = NilClient
               /\ UNCHANGED ret
               /\ Goto(t, "start_check")
    /\ UNCHANGED <<client, decommissioned, proc, nHandles, mutex, method, got, hist, config, sub, reg,
                   trace, invoked, nStops, stopSnap>>

\* if p.client.NegotiatedVersion() > 1 {
\* p.pluginClient, err = newClientV2(...) / newClientV1(...); if err != nil { return err }
StartNegotiate(t) ==
    /\ pc[t] = "start_negotiate"
    /\ \E o \in CtorOutcomes, v \in Versions :
         /\ negotiated' = IF trace THEN v ELSE negotiated
         /\ ctorCalls' = IF trace THEN Append(ctorCalls, Constructor(v)) ELSE ctorCalls
         /\ \/ /\ o = "client"
               /\ pluginClient' = [h |-> client, kind |-> Constructor(v)]
               /\ UNCHANGED ret
               /\ Goto(t, "start_check")
            \/ /\ o = "error"
               /\ pluginClient' = NilClient
               /\ ret' = [ret EXCEPT ![t] = "err_ctor"]
               /\ Goto(t, "start_return")
            \/ /\ o = "none"
               /\ pluginClient' = NilClient
               /\ UNCHANGED ret
               /\ Goto(t, "start_check")
    /\ UNCHANGED <<client, decommissioned, proc, nHandles, mutex, method, got, hist, config, sub, reg,
                   trace, invoked, nStops, stopSnap>>

\* (mutant) the nil check on p.pluginClient is missing
StartResult_NoNilCheck(c) == "nil"

\* if p.pluginClient == nil { return errors.New("no compatible ...") }; return nil
StartResult(c) == IF c = NilClient THEN "err_no_compatible" ELSE "nil"

StartCheck(t) ==
    /\ pc[t] = "start_check"
    /\ ret' = [ret EXCEPT ![t] = StartResult(pluginClient)]
    /\ Goto(t, "start_return")
    /\ UNCHANGED <<shared, mutex, method, got, hist, config, sub, reg, ext>>

\* defer p.mutex.Unlock()
StartReturn(t) ==
    /\ pc[t] = "start_return"
    /\ mutexW' = 0
    /\ lastStart' = IF ret[t] = "nil" THEN "ok" ELSE "err"
    /\ ctorCalls' = <<>>
    /\ Return(t)
    /\ UNCHANGED <<shared, mutexR, doubleStart, stopSince, stopPhase, decReturned, config, sub, reg,
                   trace, invoked, negotiated, nStops, stopSnap>>

\* ---- grpcPlugin.Stop ----
StopBegin(t) ==
    /\ kind = "grpc"
    /\ pc[t] = "idle"
    /\ Goto(t, "stop_lock")
    /\ UNCHANGED <<shared, mutex, method, got, ret, lastStart, doubleStart, stopSince, decReturned, config, sub, reg, ext>>

StopCall(t) == StopBegin(t) /\ UNCHANGED stopPhase

StopLock(t) ==
    /\ pc[t] = "stop_lock"
    /\ CanLock
    /\ mutexW' = t
    /\ Goto(t, "stop_body")
    /\ UNCHANGED <<shared, mutexR, method, got, ret, hist, config, sub, reg, ext>>

\* (mutant) the p.client != nil test is missing: Kill on a nil handle panics
StopBody_NoNilTest(t) ==
    /\ pc[t] = "stop_body"
    /\ proc' = IF client # 0 THEN Kill(client) ELSE proc
    /\ stopSince' = TRUE
    /\ ret' = [ret EXCEPT ![t] = IF client # 0 THEN "nil" ELSE "panic"]
    /\ Goto(t, "stop_return")
    /\ nStops' = IF trace /\ nStops < 2 THEN nStops + 1 ELSE nStops
    /\ stopSnap' = IF trace THEN <<client, pluginClient, decommissioned, proc>> ELSE stopSnap
    /\ UNCHANGED <<client, pluginClient, decommissioned, nHandles, mutex, method, got,
                   lastStart, doubleStart, stopPhase, decReturned, config, sub, reg,
                   trace, invoked, ctorCalls, negotiated>>

\* if p.client != nil { p.client.Kill() }; return nil
StopBody(t) ==
    /\ pc[t] = "stop_body"
    /\ proc' = IF client # 0 THEN Kill(client) ELSE proc
    /\ stopSince' = TRUE
    /\ ret' = [ret EXCEPT ![t] = "nil"]
    /\ Goto(t, "stop_return")
    /\ nStops' = IF trace /\ nStops < 2 THEN nStops + 1 ELSE nStops
    /\ stopSnap' = IF trace THEN <<client, pluginClient, decommissioned, proc>> ELSE stopSnap
    /\ UNCHANGED <<client, pluginClient, decommissioned, nHandles, mutex, method, got,
                   lastStart, doubleStart, stopPhase, decReturned, config, sub, reg,
                   trace, invoked, ctorCalls, negotiated>>

\* defer p.mutex.Unlock()
StopEnd(t) ==
    /\ pc[t] = "stop_return"
    /\ mutexW' = 0
    /\ stopSnap' = NoSnap
    /\ Return(t)
    /\ UNCHANGED <<shared, mutexR, lastStart, doubleStart, stopSince, decReturned, config, sub, reg,
                   trace, invoked, ctorCalls, negotiated, nStops>>

StopReturn(t) == StopEnd(t) /\ UNCHANGED stopPhase

\* ---- grpcPlugin.Exited ----
ExitedCall(t) ==
    /\ kind = "grpc"
    /\ pc[t] = "idle"
    /\ Goto(t, "exited_rlock")
    /\ UNCHANGED <<shared, mutex, method, got, ret, hist, config, sub, reg, ext>>

ExitedRLock(t) ==
    /\ pc[t] = "exited_rlock"
    /\ CanRLock
    /\ mutexR' = mutexR \cup {t}
    /\ Goto(t, "exited_read")
    /\ UNCHANGED <<shared, mutexW, method, got, ret, hist, config, sub, reg, ext>>

\* (mutant) a plugin that has no handle reports that it has not exited
ExitedResult_NilIsFalse == IF client # 0 THEN Exited(client) ELSE FALSE

\* if p.client != nil { return p.client.Exited() }; return true
ExitedResult == IF client # 0 THEN Exited(client) ELSE TRUE

ExitedRead(t) ==
    /\ pc[t] = "exited_read"
    /\ ret' = [ret EXCEPT ![t] = IF ExitedResult THEN "true" ELSE "false"]
    /\ Goto(t, "exited_return")
    /\ UNCHANGED <<shared, mutex, method, got, hist, config, sub, reg, ext>>

ExitedReturn(t) ==
    /\ pc[t] = "exited_return"
    /\ mutexR' = mutexR \ {t}
    /\ Return(t)
    /\ UNCHANGED <<shared, mutexW, hist, config, sub, reg, ext>>

\* ---- grpcPlugin.Decommission ----
DecommissionCall(t) ==
    /\ kind = "grpc"
    /\ pc[t] = "idle"
    /\ Goto(t, "dec_rlock")
    /\ UNCHANGED <<shared, mutex, method, got, ret, hist, config, sub, reg, ext>>

\* p.mutex.RLock()
DecommissionRLock(t) ==
    /\ pc[t] = "dec_rlock"
    /\ CanRLock
    /\ mutexR' = mutexR \cup {t}
    /\ Goto(t, "dec_write")
    /\ UNCHANGED <<shared, mutexW, method, got, ret, hist, config, sub, reg, ext>>

\* p.decommissioned = true
DecommissionWrite(t) ==
    /\ pc[t] = "dec_write"
    /\ decommissioned' = TRUE
    /\ ret' = [ret EXCEPT ![t] = "nil"]
    /\ Goto(t, "dec_return")
    /\ UNCHANGED <<client, pluginClient, proc, nHandles, mutex, method, got, hist, config, sub, reg, ext>>

\* defer p.mutex.RUnlock()
DecommissionReturn(t) ==
    /\ pc[t] = "dec_return"
    /\ mutexR' = mutexR \ {t}
    /\ decReturned' = TRUE
    /\ Return(t)
    /\ UNCHANGED <<shared, mutexW, lastStart, doubleStart, stopSince, stopPhase, config, sub, reg, ext>>

\* ---- grpcPlugin.IsDecommissioned (takes no lock) ----
IsDecommissionedCall(t) ==
    /\ kind = "grpc"
    /\ pc[t] = "idle"
    /\ Goto(t, "isdec_read")
    /\ UNCHANGED <<shared, mutex, method, got, ret, hist, config, sub, reg, ext>>

\* return p.decommissioned
IsDecommissionedRead(t) ==
    /\ pc[t] = "isdec_read"
    /\ ret' = [ret EXCEPT ![t] = IF decommissioned THEN "true" ELSE "false"]
    /\ Goto(t, "isdec_return")
    /\ UNCHANGED <<shared, mutex, method, got, hist, config, sub, reg, ext>>

IsDecommissionedReturn(t) ==
    /\ pc[t] = "isdec_return"
    /\ Return(t)
    /\ UNCHANGED <<shared, mutex, hist, config, sub, reg, ext>>

\* ---- grpcPlugin.getPluginClient and the six capability methods ----
\* (mutant) the p.client.Exited() test is missing
getPluginClient_NoExitedTest ==
    IF client = 0 \/ pluginClient = NilClient
    THEN [c |-> NilClient, ok |-> FALSE]
    ELSE [c |-> pluginClient, ok |-> TRUE]

\* (mutant) the p.pluginClient == nil test is missing
getPluginClient_NoNilClientTest ==
    IF client = 0 \/ Exited(client)
    THEN [c |-> NilClient, ok |-> FALSE]
    ELSE [c |-> pluginClient, ok |-> TRUE]

\* if p.client == nil || p.client.Exited() || p.pluginClient == nil
getPluginClient ==
    IF client = 0 \/ Exited(client) \/ pluginClient = NilClient
    THEN [c |-> NilClient, ok |-> FALSE]
    ELSE [c |-> pluginClient, ok |-> TRUE]

\* one of the six capability methods is entered (they differ only in the
\* client method they delegate to) and getPluginClient takes p.mutex.RLock()
CapabilityCall(t) ==
    /\ kind = "grpc"
    /\ pc[t] = "idle"
    /\ CanRLock
    /\ mutexR' = mutexR \cup {t}
    /\ \E m \in Methods : method' = [method EXCEPT ![t] = IF trace THEN m ELSE @]
    /\ Goto(t, "gpc_check")
    /\ UNCHANGED <<shared, mutexW, got, ret, hist, config, sub, reg, ext>>

\* (mutant) the caller's if !ok { return ... } is missing
GetPluginClientCheck_NoOkTest(t) ==
    /\ pc[t] = "gpc_check"
    /\ got' = [got EXCEPT ![t] = getPluginClient]
    /\ mutexR' = mutexR \ {t}
    /\ Goto(t, "delegating")
    /\ UNCHANGED <<shared, mutexW, method, ret, hist, config, sub, reg, ext>>

\* (mutant) the shared lock is not released before the delegated call
GetPluginClientCheck_KeepsRLock(t) ==
    /\ pc[t] = "gpc_check"
    /\ got' = [got EXCEPT ![t] = getPluginClient]
    /\ mutexR' = IF getPluginClient.ok THEN mutexR ELSE mutexR \ {t}
    /\ IF getPluginClient.ok
       THEN /\ Goto(t, "delegating")
            /\ UNCHANGED ret
       ELSE /\ Goto(t, "cap_return")
            /\ ret' = [ret EXCEPT ![t] = "ErrPluginUnavailable"]
    /\ UNCHANGED <<shared, mutexW, method, hist, config, sub, reg, ext>>

\* the check, the copy of p.pluginClient, p.mutex.RUnlock(), and the caller's
\* if !ok { return ..., backendplugin.ErrPluginUnavailable }
GetPluginClientCheck(t) ==
    /\ pc[t] = "gpc_check"
    /\ got' = [got EXCEPT ![t] = getPluginClient]
    /\ mutexR' = mutexR \ {t}
    /\ IF getPluginClient.ok
       THEN /\ Goto(t, "delegating")
            /\ UNCHANGED ret
       ELSE /\ Goto(t, "cap_return")
            /\ ret' = [ret EXCEPT ![t] = "ErrPluginUnavailable"]
    /\ UNCHANGED <<shared, mutexW, method, hist, config, sub, reg, ext>>

\* what a plugin client's method can return: the legacy client implements
\* none of the six methods; the v2 client answers or reports a transport error
ClientResults(c, m) ==
    IF c.kind = "v1" THEN {"ErrMethodNotImplemented"}
    ELSE {"result", "transport_error"}

\* the capability method goroutine t is in (any of the six where calls are not recorded)
MethodOf(t) == IF method[t] \in Methods THEN {method[t]} ELSE Methods

\* one invocation of method m of plugin client c with the request of goroutine t, answered r
Invocation(t, m, c, r) == [m |-> m, c |-> c, req |-> t, r |-> r]

\* (mutant) a transport error is retried once before it is returned
DelegateDone_Retries(t) ==
    /\ pc[t] = "delegating"
    /\ \E m \in MethodOf(t) : \E r \in ClientResults(got[t].c, m) :
         /\ ret' = [ret EXCEPT ![t] = r]
         /\ invoked' = IF trace
                       THEN [invoked EXCEPT ![t] =
                              IF r = "transport_error"
                              THEN @ \o <<Invocation(t, m, got[t].c, r), Invocation(t, m, got[t].c, r)>>
                              ELSE Append(@, Invocation(t, m, got[t].c, r))]
                       ELSE invoked
    /\ Goto(t, "cap_return")
    /\ UNCHANGED <<shared, mutex, method, got, hist, config, sub, reg,
                   trace, ctorCalls, negotiated, nStops, stopSnap>>

\* return pluginClient.<Method>(ctx, ...): the call was in flight with no lock held
DelegateDone(t) ==
    /\ pc[t] = "delegating"
    /\ \E m \in MethodOf(t) : \E r \in ClientResults(got[t].c, m) :
         /\ ret' = [ret EXCEPT ![t] = r]
         /\ invoked' = IF trace
                       THEN [invoked EXCEPT ![t] = Append(@, Invocation(t, m, got[t].c, r))]
                       ELSE invoked
    /\ Goto(t, "cap_return")
    /\ UNCHANGED <<shared, mutex, method, got, hist, config, sub, reg,
                   trace, ctorCalls, negotiated, nStops, stopSnap>>

CapabilityReturn(t) ==
    /\ pc[t] = "cap_return"
    /\ invoked' = [invoked EXCEPT ![t] = <<>>]
    /\ Return(t)
    /\ UNCHANGED <<shared, mutex, hist, config, sub, reg, trace, ctorCalls, negotiated, nStops, stopSnap>>

\* ---- corePlugin (built-in plugins) ----
CoreOps == {"Start", "Stop", "Exited", "Decommission", "IsDecommissioned"}

\* (mutant) PublishStream tests the resource handler instead of the stream handler
CoreHandlerOf_PublishTestsResource(m) ==
    CASE m = "CheckHealth" -> "CheckHealthHandler"
      [] m \in {"CallResource", "PublishStream"} -> "CallResourceHandler"
      [] m \in {"SubscribeStream", "RunStream"} -> "StreamHandler"
      [] OTHER -> "none"

\* the handler field a capability method of corePlugin tests against nil
CoreHandlerOf(m) ==
    CASE m = "CheckHealth" -> "CheckHealthHandler"
      [] m = "CallResource" -> "CallResourceHandler"
      [] m \in {"SubscribeStream", "PublishStream", "RunStream"} -> "StreamHandler"
      [] OTHER -> "none"

\* func (cp *corePlugin) Exited() bool { return false }
CoreExited == FALSE

\* func (cp *corePlugin) IsDecommissioned() bool { return false }
CoreIsDecommissioned == FALSE

BoolStr(b) == IF b THEN "true" ELSE "false"

\* Start, Stop and Decommission return nil and do nothing else
CoreOpResult(op) ==
    CASE op = "Exited" -> {BoolStr(CoreExited)}
      [] op = "IsDecommissioned" -> {BoolStr(CoreIsDecommissioned)}
      [] OTHER -> {"nil"}

\* CollectMetrics returns ErrMethodNotImplemented; the others delegate to the
\* handler when it was supplied
CoreCapabilityResults(m) ==
    IF CoreHandlerOf(m) \in handlers
    THEN {"result", "handler_error"}
    ELSE {"ErrMethodNotImplemented"}

CoreLifecycle(t) ==
    /\ kind = "core"
    /\ pc[t] = "idle"
    /\ \E op \in CoreOps :
         /\ method' = [method EXCEPT ![t] = op]
         /\ \E r \in CoreOpResult(op) : ret' = [ret EXCEPT ![t] = r]
    /\ Goto(t, "core_return")
    /\ UNCHANGED <<shared, mutex, got, hist, config, sub, reg, ext>>

CoreCapability(t) ==
    /\ kind = "core"
    /\ pc[t] = "idle"
    /\ \E m \in Methods :
         /\ method' = [method EXCEPT ![t] = m]
         /\ \E r \in CoreCapabilityResults(m) : ret' = [ret EXCEPT ![t] = r]
    /\ Goto(t, "core_return")
    /\ UNCHANGED <<shared, mutex, got, hist, config, sub, reg, ext>>

CoreReturn(t) ==
    /\ pc[t] = "core_return"
    /\ decReturned' = (decReturned \/ method[t] = "Decommission")
    /\ Return(t)
    /\ UNCHANGED <<shared, mutex, lastStart, doubleStart, stopSince, stopPhase, config, sub, reg, ext>>

\* ---- the environment: a running subprocess dies ----
ProcessExit(h) ==
    /\ proc[h] = "running"
    /\ proc' = [proc EXCEPT ![h] = "exited"]
    /\ UNCHANGED <<client, pluginClient, decommissioned, nHandles, mutex, locals, hist, config, sub, reg, ext>>

Next ==
    \/ \E t \in Threads : StartCall(t)
    \/ \E t \in Threads : StartLock(t)
    \/ \E t \in Threads : StartFactory(t)
    \/ \E t \in Threads : StartClient(t)
    \/ \E t \in Threads : StartNegotiate(t)
    \/ \E t \in Threads : StartCheck(t)
    \/ \E t \in Threads : StartReturn(t)
    \/ \E t \in Threads : StopCall(t)
    \/ \E t \in Threads : StopLock(t)
    \/ \E t \in Threads : StopBody(t)
    \/ \E t \in Threads : StopReturn(t)
    \/ \E t \in Threads : ExitedCall(t)
    \/ \E t \in Threads : ExitedRLock(t)
    \/ \E t \in Threads : ExitedRead(t)
    \/ \E t \in Threads : ExitedReturn(t)
    \/ \E t \in Threads : DecommissionCall(t)
    \/ \E t \in Threads : DecommissionRLock(t)
    \/ \E t \in Threads : DecommissionWrite(t)
    \/ \E t \in Threads : DecommissionReturn(t)
    \/ \E t \in Threads : IsDecommissionedCall(t)
    \/ \E t \in Threads : IsDecommissionedRead(t)
    \/ \E t \in Threads : IsDecommissionedReturn(t)
    \/ \E t \in Threads : CapabilityCall(t)
    \/ \E t \in Threads : GetPluginClientCheck(t)
    \/ \E t \in Threads : DelegateDone(t)
    \/ \E t \in Threads : CapabilityReturn(t)
    \/ \E t \in Threads : CoreLifecycle(t)
    \/ \E t \in Threads : CoreCapability(t)
    \/ \E t \in Threads : CoreReturn(t)
    \/ \E h \in Handles : ProcessExit(h)

Spec == Init /\ [][Next]_vars

\* ---- one Start and one Stop, with any number of capability calls ----
StartCallOnce(t) == StartsBegun = 0 /\ StartCall(t)
StopCallOnce(t) == stopPhase = 0 /\ StopBegin(t) /\ stopPhase' = 1
StopReturnOnce(t) == StopEnd(t) /\ stopPhase' = 2

NextOnce ==
    \/ \E t \in Threads : StartCallOnce(t)
    \/ \E t \in Threads : StartLock(t)
    \/ \E t \in Threads : StartFactory(t)
    \/ \E t \in Threads : StartClient(t)
    \/ \E t \in Threads : StartNegotiate(t)
    \/ \E t \in Threads : StartCheck(t)
    \/ \E t \in Threads : StartReturn(t)
    \/ \E t \in Threads : StopCallOnce(t)
    \/ \E t \in Threads : StopLock(t)
    \/ \E t \in Threads : StopBody(t)
    \/ \E t \in Threads : StopReturnOnce(t)
    \/ \E t \in Threads : CapabilityCall(t)
    \/ \E t \in Threads : GetPluginClientCheck(t)
    \/ \E t \in Threads : DelegateDone(t)
    \/ \E t \in Threads : CapabilityReturn(t)
    \/ \E h \in Handles : ProcessExit(h)

SpecOnce == Init /\ [][NextOnce]_vars

\* ---- backendplugin.Manager, as the plugin loaders use it ----
\* what grpcPlugin.Start can return (see StartClient, StartNegotiate, StartResult)
\* ---- DataSourcePlugin: start callbacks and DataQuery ----
\* (mutant) the legacy client does not count
CanHandleDataQueries_ClientOnly == dsClient # NoDsClient

\* return p.client != nil || p.legacyClient != nil
CanHandleDataQueries == dsClient # NoDsClient \/ dsLegacyClient # NoDsClient

\* p.client after onPluginStart(c): if client.DataPlugin == nil { return nil }; p.client = client
onPluginStart(c) == IF ~c.data THEN dsClient ELSE c

\* p.legacyClient after onLegacyPluginStart(c)
onLegacyPluginStart(c) == c

\* The backend plugin made by the factory of Load starts a subprocess that
\* negotiates version v; the client constructed for it is handed to the
\* start function of that version.
BackendStart(v, data) ==
    /\ dsStarted < MaxStarts
    /\ dsStarted' = dsStarted + 1
    /\ dsProc' = [dsProc EXCEPT ![dsStarted + 1] = "running"]
    /\ IF v > 1
       THEN /\ dsClient' = onPluginStart([h |-> dsStarted + 1, data |-> data])
            /\ UNCHANGED dsLegacyClient
       ELSE /\ dsLegacyClient' = onLegacyPluginStart([h |-> dsStarted + 1, data |-> data])
            /\ UNCHANGED dsClient
    /\ UNCHANGED <<shared, mutex, locals, hist, config, reg, ext, srv, ts, az, dq, dsRet>>

\* the subprocess is stopped or dies; DataSourcePlugin has no code that runs then
BackendEnds(h) ==
    /\ dsProc[h] = "running"
    /\ dsProc' = [dsProc EXCEPT ![h] = "exited"]
    /\ UNCHANGED <<shared, mutex, locals, hist, config, reg, ext, srv, ts, az,
                   dsStarted, dsClient, dsLegacyClient, dq, dsRet>>

\* if !p.CanHandleDataQueries() { return DataResponse{}, fmt.Errorf(...) }
DataQueryCheck ==
    /\ dq = "idle"
    /\ IF CanHandleDataQueries
       THEN dq' = "route" /\ UNCHANGED dsRet
       ELSE dq' = "done" /\ dsRet' = [route |-> "cant_handle", h |-> 0, live |-> FALSE]
    /\ UNCHANGED <<shared, mutex, locals, hist, config, reg, ext, srv, ts, az,
                   dsProc, dsStarted, dsClient, dsLegacyClient>>

\* the endpoint the query goes to; "panic" is the dereference of a nil p.legacyClient
Route(c, r) == [route |-> r, h |-> c.h, live |-> dsProc[c.h] = "running"]

DataQueryRoute ==
    /\ dq = "route"
    /\ dsRet' = IF dsClient # NoDsClient THEN Route(dsClient, "v2")
                ELSE IF dsLegacyClient = NoDsClient
                     THEN [route |-> "panic", h |-> 0, live |-> FALSE]
                     ELSE Route(dsLegacyClient, "legacy")
    /\ dq' = "done"
    /\ UNCHANGED <<shared, mutex, locals, hist, config, reg, ext, srv, ts, az,
                   dsProc, dsStarted, dsClient, dsLegacyClient>>

DataQueryReturn ==
    /\ dq = "done"
    /\ dq' = "idle"
    /\ dsRet' = NoDsRet
    /\ UNCHANGED <<shared, mutex, locals, hist, config, reg, ext, srv, ts, az,
                   dsProc, dsStarted, dsClient, dsLegacyClient>>

InitDataSource == InitPlugin /\ trace = FALSE /\ kind = "grpc" /\ handlers = {}

NextDataSource ==
    \/ \E v \in {1, 2}, data \in BOOLEAN : (v = 1 => data) /\ BackendStart(v, data)
    \/ \E h \in Handles : BackendEnds(h)
    \/ DataQueryCheck
    \/ DataQueryRoute
    \/ DataQueryReturn

SpecDataSource == InitDataSource /\ [][NextDataSource]_vars

\* ---- Server.Run and Server.Shutdown ----
\* if err := s.init(); err != nil { return err }, with the deferred close(s.shutdownFinished)
RunInit ==
    /\ runPc = "init"
    /\ \/ runPc' = "starting" /\ UNCHANGED <<runRet, shutdownFinished>>
       \/ runPc' = "returned" /\ runRet' = InitError /\ shutdownFinished' = TRUE
    /\ UNCHANGED <<shared, mutex, locals, hist, config, reg, ext, ds, ts, az,
                   context, cancels, shutdownOnce, groupErr, nextSvc, svc, svcRet, shPc, shCtx, shErr>>

\* one round of the loop: a service that is no background service or is
\* disabled is passed over, for any other s.childRoutines.Go starts a goroutine
RunGo ==
    /\ runPc = "starting"
    /\ nextSvc <= NumServices
    /\ \E started \in BOOLEAN :
         svc' = [svc EXCEPT ![nextSvc] = IF started THEN "spawned" ELSE "skipped"]
    /\ nextSvc' = nextSvc + 1
    /\ UNCHANGED <<shared, mutex, locals, hist, config, reg, ext, ds, ts, az,
                   context, cancels, shutdownFinished, shutdownOnce, groupErr, runPc, runRet,
                   svcRet, shPc, shCtx, shErr>>

\* the loop is over: return s.childRoutines.Wait() begins to wait
RunWaitBegin ==
    /\ runPc = "starting"
    /\ nextSvc > NumServices
    /\ runPc' = "waiting"
    /\ UNCHANGED <<shared, mutex, locals, hist, config, reg, ext, ds, ts, az,
                   context, cancels, shutdownFinished, shutdownOnce, groupErr, nextSvc, runRet,
                   svc, svcRet, shPc, shCtx, shErr>>

\* errgroup.Group.Go: the first non-nil error is kept (and cancels the context)
GroupReturn(err) == IF err # NoErr /\ groupErr = NoErr THEN err ELSE groupErr

\* what the goroutine of service s makes of the result r of service.Run
GoroutineResult(s, r) ==
    IF r \in {"nil", "context.Canceled"} THEN NoErr ELSE [kind |-> "run error", name |-> s]

\* the goroutine of service s is scheduled: with the context done it
\* returns s.context.Err(), otherwise it calls service.Run(s.context)
GoroutineStart(s) ==
    /\ svc[s] = "spawned"
    /\ IF context = "cancelled"
       THEN /\ svc' = [svc EXCEPT ![s] = "returned"]
            /\ groupErr' = GroupReturn(Canceled)
       ELSE /\ svc' = [svc EXCEPT ![s] = "running"]
            /\ UNCHANGED groupErr
    /\ UNCHANGED <<shared, mutex, locals, hist, config, reg, ext, ds, ts, az,
                   context, cancels, shutdownFinished, shutdownOnce, runPc, nextSvc, runRet,
                   svcRet, shPc, shCtx, shErr>>

\* service.Run returns r and the goroutine returns to the group
ServiceReturns(s, r) ==
    /\ svc[s] = "running"
    /\ svcRet' = [svcRet EXCEPT ![s] = r]
    /\ svc' = [svc EXCEPT ![s] = "returned"]
    /\ groupErr' = GroupReturn(GoroutineResult(s, r))
    /\ context' = IF GoroutineResult(s, r) # NoErr THEN "cancelled" ELSE context
    /\ UNCHANGED <<shared, mutex, locals, hist, config, reg, ext, ds, ts, az,
                   cancels, shutdownFinished, shutdownOnce, runPc, nextSvc, runRet,
                   shPc, shCtx, shErr>>

\* errgroup.Group.Wait: every goroutine started with Go has returned
WaitOver == \A s \in Services : svc[s] \in {"skipped", "returned"}

\* Wait returns the group's error; Run returns it and closes shutdownFinished
RunWait ==
    /\ runPc = "waiting"
    /\ WaitOver
    /\ runRet' = groupErr
    /\ context' = "cancelled"
    /\ shutdownFinished' = TRUE
    /\ runPc' = "returned"
    /\ UNCHANGED <<shared, mutex, locals, hist, config, reg, ext, ds, ts, az,
                   cancels, shutdownOnce, groupErr, nextSvc, svc, svcRet, shPc, shCtx, shErr>>

\* Shutdown is called: s.shutdownOnce.Do runs the function for the first
\* caller (which calls s.shutdownFn()), blocks a caller that arrives while
\* the function runs, and returns at once when the function has returned
ShutdownCall(c) ==
    /\ shPc[c] = "idle"
    /\ CASE shutdownOnce = "new" ->
              /\ shutdownOnce' = "running"
              /\ context' = "cancelled"
              /\ cancels' = cancels + 1
              /\ shPc' = [shPc EXCEPT ![c] = "select"]
              /\ UNCHANGED shErr
         [] shutdownOnce = "running" ->
              /\ shPc' = [shPc EXCEPT ![c] = "blocked"]
              /\ UNCHANGED <<shutdownOnce, context, cancels, shErr>>
         [] OTHER ->
              /\ shPc' = [shPc EXCEPT ![c] = "returned"]
              /\ shErr' = [shErr EXCEPT ![c] = "nil"]
              /\ UNCHANGED <<shutdownOnce, context, cancels>>
    /\ UNCHANGED <<shared, mutex, locals, hist, config, reg, ext, ds, ts, az,
                   shutdownFinished, groupErr, runPc, nextSvc, runRet, svc, svcRet, shCtx>>

\* the select of the first caller: either case that is ready may be taken
ShutdownSelect(c) ==
    /\ shPc[c] = "select"
    /\ \/ shutdownFinished /\ shErr' = [shErr EXCEPT ![c] = "nil"]
       \/ shCtx[c] = "expired" /\ shErr' = [shErr EXCEPT ![c] = "timeout waiting for shutdown"]
    /\ shutdownOnce' = "done"
    /\ shPc' = [shPc EXCEPT ![c] = "returned"]
    /\ UNCHANGED <<shared, mutex, locals, hist, config, reg, ext, ds, ts, az,
                   context, cancels, shutdownFinished, groupErr, runPc, nextSvc, runRet,
                   svc, svcRet, shCtx>>

\* a caller blocked in Do returns when the first caller's function has returned
ShutdownUnblock(c) ==
    /\ shPc[c] = "blocked"
    /\ shutdownOnce = "done"
    /\ shPc' = [shPc EXCEPT ![c] = "returned"]
    /\ shErr' = [shErr EXCEPT ![c] = "nil"]
    /\ UNCHANGED <<shared, mutex, locals, hist, config, reg, ext, ds, ts, az,
                   context, cancels, shutdownFinished, shutdownOnce, groupErr, runPc, nextSvc,
                   runRet, svc, svcRet, shCtx>>

\* the context a caller passed to Shutdown expires (main gives it 30 seconds)
ContextExpires(c) ==
    /\ shCtx[c] = "live"
    /\ shPc[c] # "returned"
    /\ shCtx' = [shCtx EXCEPT ![c] = "expired"]
    /\ UNCHANGED <<shared, mutex, locals, hist, config, reg, ext, ds, ts, az,
                   context, cancels, shutdownFinished, shutdownOnce, groupErr, runPc, nextSvc,
                   runRet, svc, svcRet, shPc, shErr>>

InitServerSpec == InitPlugin /\ trace = FALSE /\ kind = "grpc" /\ handlers = {}

NextServer ==
    \/ RunInit
    \/ RunGo
    \/ RunWaitBegin
    \/ \E s \in Services : GoroutineStart(s)
    \/ \E s \in Services, r \in {"nil", "context.Canceled", "error"} : ServiceReturns(s, r)
    \/ RunWait
    \/ \E c \in Callers : ShutdownCall(c)
    \/ \E c \in Callers : ShutdownSelect(c)
    \/ \E c \in Callers : ShutdownUnblock(c)
    \/ \E c \in Callers : ContextExpires(c)

SpecServer == InitServerSpec /\ [][NextServer]_vars

\* ---- testStreamHandler.RunStream ----
\* RunStream: the switch on request.Path, then runTestStream up to its loop
RunStream(s, path) ==
    /\ tsPc[s] = "idle"
    /\ IF path = "other"
       THEN /\ tsPc' = [tsPc EXCEPT ![s] = "returned"]
            /\ tsRet' = [tsRet EXCEPT ![s] = "does not support path"]
            /\ UNCHANGED tsDrop
       ELSE /\ tsPc' = [tsPc EXCEPT ![s] = "select"]
            /\ tsDrop' = [tsDrop EXCEPT ![s] = (path = "random-flakey-stream")]
            /\ UNCHANGED tsRet
    /\ UNCHANGED <<shared, mutex, locals, hist, config, reg, ext, ds, srv, az,
                   frame, tsField, tsCtx, tsPacket, tsSent, tsTick>>

\* the caller cancels the context of stream s
CancelContext(s) ==
    /\ tsCtx[s] = "live"
    /\ tsPc[s] # "returned"
    /\ tsCtx' = [tsCtx EXCEPT ![s] = "done"]
    /\ UNCHANGED <<shared, mutex, locals, hist, config, reg, ext, ds, srv, az,
                   frame, tsPc, tsField, tsDrop, tsRet, tsPacket, tsSent, tsTick>>

\* case <-ctx.Done(): return ctx.Err()
SelectCtx(s) ==
    /\ tsPc[s] = "select"
    /\ tsCtx[s] = "done"
    /\ tsPc' = [tsPc EXCEPT ![s] = "returned"]
    /\ tsRet' = [tsRet EXCEPT ![s] = "ctx.Err()"]
    /\ UNCHANGED <<shared, mutex, locals, hist, config, reg, ext, ds, srv, az,
                   frame, tsField, tsCtx, tsDrop, tsPacket, tsSent, tsTick>>

\* case t := <-ticker.C: if rand.Float64() < conf.Drop { continue }
TickDropped(s) ==
    /\ tsPc[s] = "select"
    /\ tsDrop[s]
    /\ tsTick' = [tsTick EXCEPT ![s] = "dropped"]
    /\ UNCHANGED <<shared, mutex, locals, hist, config, reg, ext, ds, srv, az,
                   frame, tsPc, tsField, tsCtx, tsDrop, tsRet, tsPacket, tsSent>>

\* case t := <-ticker.C, the tick is kept: the stream goes on to set the fields
TickKept(s) ==
    /\ tsPc[s] = "select"
    /\ tsSent[s] < MaxPackets
    /\ tsPc' = [tsPc EXCEPT ![s] = "set"]
    /\ tsField' = [tsField EXCEPT ![s] = 1]
    /\ tsTick' = [tsTick EXCEPT ![s] = "none"]
    /\ UNCHANGED <<shared, mutex, locals, hist, config, reg, ext, ds, srv, az,
                   frame, tsCtx, tsDrop, tsRet, tsPacket, tsSent>>

\* p.frame.Fields[i].Set(0, ...): one field of the shared frame, no lock held
SetField(s) ==
    /\ tsPc[s] = "set"
    /\ frame' = [frame EXCEPT ![tsField[s]] = s]
    /\ IF tsField[s] = NumFields
       THEN /\ tsPc' = [tsPc EXCEPT ![s] = "marshal"]
            /\ tsField' = [tsField EXCEPT ![s] = 0]
       ELSE /\ tsField' = [tsField EXCEPT ![s] = @ + 1]
            /\ UNCHANGED tsPc
    /\ UNCHANGED <<shared, mutex, locals, hist, config, reg, ext, ds, srv, az,
                   tsCtx, tsDrop, tsRet, tsPacket, tsSent, tsTick>>

\* bytes, err := data.FrameToJSON(p.frame, false, true); on an error the
\* tick is given up. The frame is read in one step: reading it field by
\* field while another stream sets fields only adds mixtures.
FrameToJSON(s) ==
    /\ tsPc[s] = "marshal"
    /\ \/ /\ tsPacket' = [tsPacket EXCEPT ![s] = frame]
          /\ tsPc' = [tsPc EXCEPT ![s] = "send"]
          /\ UNCHANGED tsTick
       \/ /\ tsTick' = [tsTick EXCEPT ![s] = "unmarshalable"]
          /\ tsPc' = [tsPc EXCEPT ![s] = "select"]
          /\ UNCHANGED tsPacket
    /\ UNCHANGED <<shared, mutex, locals, hist, config, reg, ext, ds, srv, az,
                   frame, tsField, tsCtx, tsDrop, tsRet, tsSent>>

\* (mutant) an error of sender.Send is logged and the loop goes on
Send_ErrorIgnored(s) ==
    /\ tsPc[s] = "send"
    /\ tsPacket' = [tsPacket EXCEPT ![s] = NoPacket]
    /\ tsPc' = [tsPc EXCEPT ![s] = "select"]
    /\ \/ /\ tsSent' = [tsSent EXCEPT ![s] = @ + 1]
          /\ tsTick' = [tsTick EXCEPT ![s] = "sent"]
       \/ /\ tsTick' = [tsTick EXCEPT ![s] = "send error"]
          /\ UNCHANGED tsSent
    /\ UNCHANGED <<shared, mutex, locals, hist, config, reg, ext, ds, srv, az,
                   frame, tsField, tsCtx, tsDrop, tsRet>>

\* if err := sender.Send(packet); err != nil { return err }
Send(s) ==
    /\ tsPc[s] = "send"
    /\ tsPacket' = [tsPacket EXCEPT ![s] = NoPacket]
    /\ \/ /\ tsSent' = [tsSent EXCEPT ![s] = @ + 1]
          /\ tsTick' = [tsTick EXCEPT ![s] = "sent"]
          /\ tsPc' = [tsPc EXCEPT ![s] = "select"]
          /\ UNCHANGED tsRet
       \/ /\ tsTick' = [tsTick EXCEPT ![s] = "send error"]
          /\ tsPc' = [tsPc EXCEPT ![s] = "returned"]
          /\ tsRet' = [tsRet EXCEPT ![s] = "send error"]
          /\ UNCHANGED tsSent
    /\ UNCHANGED <<shared, mutex, locals, hist, config, reg, ext, ds, srv, az,
                   frame, tsField, tsCtx, tsDrop>>

InitStream == InitPlugin /\ trace = FALSE /\ kind = "grpc" /\ handlers = {}

NextStream ==
    \/ \E s \in Streams, path \in Paths : RunStream(s, path)
    \/ \E s \in Streams : CancelContext(s)
    \/ \E s \in Streams : SelectCtx(s)
    \/ \E s \in Streams : TickDropped(s)
    \/ \E s \in Streams : TickKept(s)
    \/ \E s \in Streams : SetField(s)
    \/ \E s \in Streams : FrameToJSON(s)
    \/ \E s \in Streams : Send(s)

\* any number of streams on one handler
SpecStream == InitStream /\ [][NextStream]_vars

NextOneStream ==
    \/ \E path \in Paths : RunStream(1, path)
    \/ CancelContext(1)
    \/ SelectCtx(1)
    \/ TickDropped(1)
    \/ TickKept(1)
    \/ SetField(1)
    \/ FrameToJSON(1)
    \/ Send(1)

\* One stream. The goroutine keeps running and Send returns (weak
\* fairness); a select that is executed again and again with the context
\* done takes that case at some time, since select chooses at random among
\* the cases that are ready (strong fairness). No tick is ever required.
SpecOneStream ==
    /\ InitStream
    /\ [][NextOneStream]_vars
    /\ WF_vars(SetField(1) \/ FrameToJSON(1) \/ Send(1))
    /\ SF_vars(SelectCtx(1))

\* ---- getCredential ----
\* credential := c.credValue.Load(); if credential == nil { ... } else return it
GetCredentialLoad(g) ==
    /\ gcPc[g] = "idle"
    /\ gcCred' = [gcCred EXCEPT ![g] = credValue]
    /\ IF credValue = 0
       THEN gcPc' = [gcPc EXCEPT ![g] = "lock"] /\ UNCHANGED gcRet
       ELSE /\ gcPc' = [gcPc EXCEPT ![g] = "returned"]
            /\ gcRet' = [gcRet EXCEPT ![g] = [cred |-> credValue, err |-> "nil"]]
    /\ UNCHANGED <<shared, mutex, locals, hist, config, reg, ext, ds, srv, ts,
                   credValue, credLock, constructed>>

\* c.credLock.Lock()
GetCredentialLock(g) ==
    /\ gcPc[g] = "lock"
    /\ credLock = 0
    /\ credLock' = g
    /\ gcPc' = [gcPc EXCEPT ![g] = "construct"]
    /\ UNCHANGED <<shared, mutex, locals, hist, config, reg, ext, ds, srv, ts,
                   credValue, constructed, gcCred, gcRet>>

\* credential, err = azidentity.New...Credential(...); on an error return
\* nil, err; otherwise c.credValue.Store(credential) and return it; the
\* deferred c.credLock.Unlock()
GetCredentialConstruct(g) ==
    /\ gcPc[g] = "construct"
    /\ credLock' = 0
    /\ gcPc' = [gcPc EXCEPT ![g] = "returned"]
    /\ \/ /\ constructed' = constructed + 1
          /\ credValue' = constructed + 1
          /\ gcCred' = [gcCred EXCEPT ![g] = constructed + 1]
          /\ gcRet' = [gcRet EXCEPT ![g] = [cred |-> constructed + 1, err |-> "nil"]]
       \/ /\ gcRet' = [gcRet EXCEPT ![g] = [cred |-> 0, err |-> "error"]]
          /\ UNCHANGED <<constructed, credValue, gcCred>>
    /\ UNCHANGED <<shared, mutex, locals, hist, config, reg, ext, ds, srv, ts>>

\* the caller has its result and may call again
GetCredentialReturn(g) ==
    /\ gcPc[g] = "returned"
    /\ gcPc' = [gcPc EXCEPT ![g] = "idle"]
    /\ gcCred' = [gcCred EXCEPT ![g] = 0]
    /\ gcRet' = [gcRet EXCEPT ![g] = NoCredRet]
    /\ UNCHANGED <<shared, mutex, locals, hist, config, reg, ext, ds, srv, ts,
                   credValue, credLock, constructed>>

InitCredentialSpec == InitPlugin /\ trace = FALSE /\ kind = "grpc" /\ handlers = {}

NextCredential ==
    \/ \E g \in Getters : GetCredentialLoad(g)
    \/ \E g \in Getters : GetCredentialLock(g)
    \/ \E g \in Getters : GetCredentialConstruct(g)
    \/ \E g \in Getters : GetCredentialReturn(g)

SpecCredential == InitCredentialSpec /\ [][NextCredential]_vars

\* ---- progress of the lifecycle calls of a gRPC plugin ----
\* A goroutine at start_lock or stop_lock is inside p.mutex.Lock(). While
\* there is one, sync.RWMutex makes RLock() wait, so that readers that keep
\* arriving cannot hold a writer off for ever.
WriterWaits == \E u \in Threads : pc[u] \in {"start_lock", "stop_lock"}

\* p.mutex.RLock() of sync.RWMutex, for the step A that takes the shared lock
RLock(A) == ~WriterWaits /\ A

\* The steps goroutine t takes by itself once it is inside a method. Entering
\* a method is the caller's choice and the return of a delegated call is the
\* plugin's (a stream may never return), so neither is among them.
Running(t) ==
    \/ StartFactory(t) \/ StartClient(t) \/ StartNegotiate(t) \/ StartCheck(t) \/ StartReturn(t)
    \/ StopBody(t) \/ StopReturn(t)
    \/ RLock(ExitedRLock(t)) \/ ExitedRead(t) \/ ExitedReturn(t)
    \/ RLock(DecommissionRLock(t)) \/ DecommissionWrite(t) \/ DecommissionReturn(t)
    \/ GetPluginClientCheck(t) \/ CapabilityReturn(t)

InitProgress == InitPlugin /\ trace = FALSE /\ kind = "grpc" /\ handlers = {}

NextProgress ==
    \/ \E t \in Threads : StartCall(t)
    \/ \E t \in Threads : StartLock(t)
    \/ \E t \in Threads : StartFactory(t)
    \/ \E t \in Threads : StartClient(t)
    \/ \E t \in Threads : StartNegotiate(t)
    \/ \E t \in Threads : StartCheck(t)
    \/ \E t \in Threads : StartReturn(t)
    \/ \E t \in Threads : StopCall(t)
    \/ \E t \in Threads : StopLock(t)
    \/ \E t \in Threads : StopBody(t)
    \/ \E t \in Threads : StopReturn(t)
    \/ \E t \in Threads : ExitedCall(t)
    \/ \E t \in Threads : RLock(ExitedRLock(t))
    \/ \E t \in Threads : ExitedRead(t)
    \/ \E t \in Threads : ExitedReturn(t)
    \/ \E t \in Threads : DecommissionCall(t)
    \/ \E t \in Threads : RLock(DecommissionRLock(t))
    \/ \E t \in Threads : DecommissionWrite(t)
    \/ \E t \in Threads : DecommissionReturn(t)
    \/ \E t \in Threads : RLock(CapabilityCall(t))
    \/ \E t \in Threads : GetPluginClientCheck(t)
    \/ \E t \in Threads : DelegateDone(t)
    \/ \E t \in Threads : CapabilityReturn(t)
    \/ \E h \in Handles : ProcessExit(h)

\* A goroutine inside a method keeps running (weak fairness). Of the
\* goroutines inside p.mutex.Lock() each gets the lock at some time if it
\* is free again and again (strong fairness): sync.Mutex hands the lock to
\* a waiter that has been starving.
SpecProgress ==
    /\ InitProgress
    /\ [][NextProgress]_vars
    /\ \A t \in Threads : WF_vars(Running(t))
    /\ \A t \in Threads : SF_vars(StartLock(t)) /\ SF_vars(StopLock(t))

\* ---- the registry ----
StartOutcomes == {"nil", "err_client", "err_ctor", "err_no_compatible"}

NilErr == [msg |-> "nil", cause |-> "nil"]

\* errutil.Wrapf(err, msg)
Wrapf(err, msg) == [msg |-> msg, cause |-> err]

\* Manager.Register(id, factory): the error it returns and the registry it leaves
Register(id, f) ==
    IF plugins[id] # NoEntry
    THEN [err |-> "already_registered", plugins |-> plugins]
    ELSE [err |-> "nil", plugins |-> [plugins EXCEPT ![id] = [factory |-> f, started |-> "no"]]]

\* Manager.RegisterAndStart(ctx, id, factory), where Start of the new
\* instance returns s: registers, then starts in the same call and
\* returns the start failure
RegisterAndStart(id, f, s) ==
    LET r == Register(id, f)
    IN  IF r.err # "nil" THEN r
        ELSE [err |-> s,
              plugins |-> [r.plugins EXCEPT ![id].started = IF s = "nil" THEN "ok" ELSE "failed"]]

\* Manager.GetPlugin(id)
GetPlugin(id) ==
    IF plugins[id] = NoEntry THEN [p |-> NoEntry, ok |-> FALSE]
    ELSE [p |-> plugins[id], ok |-> TRUE]

\* a plugin.json of the given type is loaded: Load is called on a fresh
\* plugin value with the manager
LoadCall(fn, id, f, backend) ==
    /\ load = NoLoad
    /\ load' = [fn |-> fn, id |-> id, factory |-> f, backend |-> backend, before |-> plugins]
    /\ UNCHANGED <<shared, mutex, locals, hist, config, sub, ext, plugins, loadRet>>

\* (mutant) the error of Register is dropped
RendererLoad_DropsError ==
    /\ load.fn = "RendererPlugin.Load" /\ loadRet = NoRet
    /\ \E decoded \in BOOLEAN :
         IF ~decoded
         THEN /\ loadRet' = [value |-> "nil", err |-> Wrapf("decode", "nil")]
              /\ UNCHANGED plugins
         ELSE LET r == Register(load.id, load.factory)
              IN  /\ plugins' = r.plugins
                  /\ loadRet' = [value |-> "plugin", err |-> NilErr]
    /\ UNCHANGED <<shared, mutex, locals, hist, config, sub, ext, load>>

\* RendererPlugin.Load: decode; Register; return r, nil
RendererLoad ==
    /\ load.fn = "RendererPlugin.Load" /\ loadRet = NoRet
    /\ \E decoded \in BOOLEAN :
         IF ~decoded
         THEN /\ loadRet' = [value |-> "nil", err |-> Wrapf("decode", "nil")]
              /\ UNCHANGED plugins
         ELSE LET r == Register(load.id, load.factory)
              IN  /\ plugins' = r.plugins
                  /\ loadRet' = IF r.err # "nil"
                                THEN [value |-> "nil",
                                      err |-> Wrapf(r.err, "failed to register backend plugin")]
                                ELSE [value |-> "plugin", err |-> NilErr]
    /\ UNCHANGED <<shared, mutex, locals, hist, config, sub, ext, load>>

\* (mutant) the error of RegisterAndStart is only logged
DataSourceLoad_DropsError ==
    /\ load.fn = "DataSourcePlugin.Load" /\ loadRet = NoRet
    /\ \E decoded \in BOOLEAN, s \in StartOutcomes :
         IF ~decoded
         THEN /\ loadRet' = [value |-> "nil",
                             err |-> Wrapf("decode", "Failed to decode datasource plugin")]
              /\ UNCHANGED plugins
         ELSE IF load.backend
         THEN LET r == RegisterAndStart(load.id, load.factory, s)
              IN  /\ plugins' = r.plugins
                  /\ loadRet' = [value |-> "plugin", err |-> NilErr]
         ELSE /\ loadRet' = [value |-> "plugin", err |-> NilErr]
              /\ UNCHANGED plugins
    /\ UNCHANGED <<shared, mutex, locals, hist, config, sub, ext, load>>

\* DataSourcePlugin.Load: decode; if p.Backend { RegisterAndStart }; return p, nil
DataSourceLoad ==
    /\ load.fn = "DataSourcePlugin.Load" /\ loadRet = NoRet
    /\ \E decoded \in BOOLEAN, s \in StartOutcomes :
         IF ~decoded
         THEN /\ loadRet' = [value |-> "nil",
                             err |-> Wrapf("decode", "Failed to decode datasource plugin")]
              /\ UNCHANGED plugins
         ELSE IF load.backend
         THEN LET r == RegisterAndStart(load.id, load.factory, s)
              IN  /\ plugins' = r.plugins
                  /\ loadRet' = IF r.err # "nil"
                                THEN [value |-> "nil",
                                      err |-> Wrapf(r.err, "failed to register backend plugin")]
                                ELSE [value |-> "plugin", err |-> NilErr]
         ELSE /\ loadRet' = [value |-> "plugin", err |-> NilErr]
              /\ UNCHANGED plugins
    /\ UNCHANGED <<shared, mutex, locals, hist, config, sub, ext, load>>

LoadReturn ==
    /\ loadRet # NoRet
    /\ load' = NoLoad
    /\ loadRet' = NoRet
    /\ UNCHANGED <<shared, mutex, locals, hist, config, sub, ext, plugins>>

InitRegistry ==
    /\ InitPlugin
    /\ trace = FALSE
    /\ kind = "grpc" /\ handlers = {}

NextRegistry ==
    \/ \E id \in PluginIds, f \in Factories : LoadCall("RendererPlugin.Load", id, f, TRUE)
    \/ \E id \in PluginIds, f \in Factories, b \in BOOLEAN : LoadCall("DataSourcePlugin.Load", id, f, b)
    \/ RendererLoad
    \/ DataSourceLoad
    \/ LoadReturn

SpecRegistry == InitRegistry /\ [][NextRegistry]_vars

\* ---- the managed plugin process with its collaborators' calls recorded ----
InitTrace ==
    /\ InitPlugin
    /\ trace = TRUE
    /\ kind = "grpc" /\ handlers = {}

NextTrace ==
    \/ \E t \in Threads : StartCall(t)
    \/ \E t \in Threads : StartLock(t)
    \/ \E t \in Threads : StartFactory(t)
    \/ \E t \in Threads : StartClient(t)
    \/ \E t \in Threads : StartNegotiate(t)
    \/ \E t \in Threads : StartCheck(t)
    \/ \E t \in Threads : StartReturn(t)
    \/ \E t \in Threads : StopCall(t)
    \/ \E t \in Threads : StopLock(t)
    \/ \E t \in Threads : StopBody(t)
    \/ \E t \in Threads : StopReturn(t)
    \/ \E t \in Threads : CapabilityCall(t)
    \/ \E t \in Threads : GetPluginClientCheck(t)
    \/ \E t \in Threads : DelegateDone(t)
    \/ \E t \in Threads : CapabilityReturn(t)
    \/ \E h \in Handles : ProcessExit(h)

SpecTrace == InitTrace /\ [][NextTrace]_vars

TypeOK ==
    /\ client \in 0..MaxStarts
    /\ pluginClient \in PluginClients
    /\ decommissioned \in BOOLEAN
    /\ proc \in [Handles -> {"none", "running", "exited"}]
    /\ nHandles \in 0..MaxStarts
    /\ mutexW \in 0..NumThreads
    /\ mutexR \subseteq Threads
    /\ mutexW # 0 => mutexR = {}
    /\ kind \in {"grpc", "core"}
    /\ trace \in BOOLEAN
    /\ negotiated \in Versions \cup {NoVersion}
    /\ nStops \in 0..2
    /\ \A t \in Threads : Len(invoked[t]) <= 1
    /\ Len(ctorCalls) <= 1
    /\ \A id \in PluginIds : plugins[id].started \in {"none", "no", "ok", "failed"}

\* ======================= the claims =======================
Grpc == kind = "grpc"

\* a goroutine is inside getPluginClient, holding the shared lock
Checking(t) == pc[t] = "gpc_check"

\* C1: getPluginClient yields a client whenever the latest Start succeeded
\* and its subprocess has since neither exited nor been stopped, and the
\* client it yields is never bound to a subprocess that is dead.
C1_ClientOnlyOfLiveProcess ==
    \A t \in Threads : (Grpc /\ Checking(t)) =>
        /\ (lastStart = "ok" /\ ~stopSince /\ proc[client] = "running") => getPluginClient.ok
        /\ getPluginClient.ok => proc[getPluginClient.c.h] = "running"

\* C2 (as stated): with one Start and one Stop, no getPluginClient call
\* that begins after Stop has returned yields a client, and no call yields
\* a client bound to a process already stopped when the call took the lock.
C2_NoClientAfterStop ==
    \A t \in Threads : (Grpc /\ Checking(t)) =>
        /\ stopPhase = 2 => ~getPluginClient.ok
        /\ getPluginClient.ok => proc[getPluginClient.c.h] = "running"

\* C2 (amended): with one Start and one Stop, no getPluginClient call that
\* begins after Stop has returned yields a client unless Start took the
\* lock after that Stop released it, and no call yields a client bound to
\* a process already stopped when the call took the lock.
C2_NoStaleClientAfterStop ==
    \A t \in Threads : (Grpc /\ Checking(t)) =>
        /\ (stopPhase = 2 /\ stopSince) => ~getPluginClient.ok
        /\ getPluginClient.ok => proc[getPluginClient.c.h] = "running"

\* C2 witness: a call checks after Stop has killed the started subprocess
C2_Witness ==
    \E t \in Threads :
        /\ Checking(t) /\ stopPhase = 2 /\ stopSince
        /\ lastStart = "ok" /\ pluginClient.h = client /\ proc[client] = "exited"

\* C3: in every state in which Decommission() has returned and a
\* capability call can enter getPluginClient, getPluginClient refuses, so
\* that the call returns ErrPluginUnavailable.
C3_DecommissionedIsUnavailable ==
    (Grpc /\ decReturned /\ CanRLock) => ~getPluginClient.ok

\* C4: while the latest Start is a successful one, a capability call is
\* delegated to the published client exactly when Stop has not run since
\* and the subprocess has not died; otherwise it returns
\* ErrPluginUnavailable, until Start runs again.
C4_UnavailableAfterStopOrCrash ==
    \A t \in Threads :
        /\ (Grpc /\ Checking(t) /\ lastStart = "ok") =>
              /\ getPluginClient.ok <=> (~stopSince /\ proc[client] = "running")
              /\ getPluginClient.ok => getPluginClient.c = pluginClient
        /\ (Grpc /\ pc[t] = "cap_return" /\ ~got[t].ok) => ret[t] = "ErrPluginUnavailable"
        /\ (Grpc /\ pc[t] = "delegating") => got[t].ok

\* C4 witness: a capability call returns ErrPluginUnavailable after a
\* successful Start was followed by Stop
C4_Witness ==
    \E t \in Threads :
        /\ pc[t] = "cap_return"
        /\ ret[t] = "ErrPluginUnavailable"
        /\ lastStart = "ok" /\ stopSince /\ mutexW = 0

\* C5: once a Start that followed an earlier Start with no Stop in between
\* has returned, it has returned an error or left the handle unchanged, a
\* published plugin client is bound to the handle the plugin holds, and no
\* subprocess runs whose handle the plugin does not hold.
C5_SecondStartIsSafe ==
    (Grpc /\ doubleStart /\ ~stopSince /\ mutexW = 0) =>
        /\ lastStart = "err" \/ client # nHandles
        /\ pluginClient # NilClient => pluginClient.h = client
        /\ \A h \in Handles : proc[h] = "running" => h = client

\* C6: after a Start that returned an error, every capability call returns
\* ErrPluginUnavailable until a later Start succeeds.
C6_FailedStartIsUnavailable ==
    \A t \in Threads : (Grpc /\ Checking(t) /\ lastStart = "err") => ~getPluginClient.ok

\* C7: Start returns nil exactly when a non-nil plugin client has been
\* published for the newly created subprocess handle; it returns an error
\* when the RPC connection is not obtained, the constructor fails, or the
\* constructor yields no client.
C7_StartNilOnlyWithClient ==
    \A t \in Threads : pc[t] = "start_return" =>
        /\ ret[t] \in {"nil", "err_client", "err_ctor", "err_no_compatible"}
        /\ ret[t] = "nil" <=> (pluginClient # NilClient /\ pluginClient.h = client)
        /\ ret[t] = "nil" => (client = nHandles /\ proc[client] # "none")
        /\ ret[t] \in {"err_ctor", "err_no_compatible"} => pluginClient = NilClient

\* C7 witness: Start is about to return "no compatible plugin
\* implementation found"
C7_Witness ==
    \E t \in Threads : pc[t] = "start_return" /\ ret[t] = "err_no_compatible"

\* C8: after a Stop or a crash, once a later Start has succeeded a
\* capability call is delegated again, to the client that latest Start
\* constructed on the new subprocess.
C8_RestartRecovers ==
    \A t \in Threads :
        (Grpc /\ Checking(t) /\ lastStart = "ok" /\ ~stopSince /\ proc[client] = "running") =>
            /\ getPluginClient.ok
            /\ getPluginClient.c.h = client
            /\ client = nHandles

\* C8 witness: a call checks after the first subprocess died and a second
\* Start succeeded
C8_Witness ==
    \E t \in Threads :
        /\ Checking(t) /\ lastStart = "ok" /\ ~stopSince
        /\ client = 2 /\ proc[2] = "running" /\ proc[1] = "exited"

\* the positions at which a goroutine writes / reads a shared field
WritePositions == {"start_factory", "start_negotiate", "dec_write"}
ReadPositions == {"stop_body", "start_check", "exited_read", "gpc_check", "isdec_read"}

\* C9: every write of a shared field happens under the exclusive lock and
\* every read under at least the shared lock, so no write is concurrent
\* with another access of the same field.
C9_AccessesAreLocked ==
    /\ \A t \in Threads : pc[t] \in WritePositions => mutexW = t
    /\ \A t \in Threads : pc[t] \in ReadPositions => (mutexW = t \/ t \in mutexR)
    /\ \A t, u \in Threads :
          (t # u /\ pc[t] = "dec_write") => pc[u] \notin {"dec_write", "isdec_read"}

\* what IsDecommissioned() of the instance returns in the current state
IsDecommissioned == IF Grpc THEN decommissioned ELSE CoreIsDecommissioned

DecommissionCalled ==
    \/ decReturned
    \/ \E t \in Threads : pc[t] \in {"dec_rlock", "dec_write", "dec_return"}
    \/ \E t \in Threads : pc[t] = "core_return" /\ method[t] = "Decommission"

\* C10 (as stated): on any plugin instance, once Decommission() has been
\* called IsDecommissioned() returns true from then on, and before the
\* first Decommission it returns false.
C10_DecommissionIsOneWay ==
    /\ decReturned => IsDecommissioned
    /\ ~DecommissionCalled => ~IsDecommissioned

\* C10 (amended): on a grpcPlugin, once Decommission() has returned
\* IsDecommissioned() returns true, also after any later Start, Stop,
\* subprocess exit or capability call, and before the first Decommission
\* it returns false; a corePlugin's Decommission() is a no-op and its
\* IsDecommissioned() always returns false.
C10_GrpcDecommissionIsOneWay ==
    /\ Grpc => (decReturned => IsDecommissioned)
    /\ Grpc => (~DecommissionCalled => ~IsDecommissioned)
    /\ \A t \in Threads :
          (Grpc /\ pc[t] = "isdec_return" /\ ret[t] = "true") => DecommissionCalled
    /\ \A t \in Threads :
          (~Grpc /\ pc[t] = "core_return" /\ method[t] = "IsDecommissioned") => ret[t] = "false"

\* C10 witness: a decommissioned grpcPlugin that was also started and stopped reports true
C10_Witness ==
    /\ Grpc /\ decReturned /\ nHandles >= 1 /\ lastStart = "ok" /\ stopSince
    /\ \E t \in Threads : pc[t] = "isdec_return" /\ ret[t] = "true"

\* C11: each of the six capability methods performs the getPluginClient
\* check before it invokes anything; when the check fails the call returns
\* ErrPluginUnavailable having invoked no method of the plugin client, and
\* no method is ever invoked on a nil plugin client.
C11_CheckBeforeAnyCall ==
    \A t \in Threads :
        /\ Checking(t) => (method[t] \in Methods /\ invoked[t] = <<>>)
        /\ (pc[t] = "cap_return" /\ ~got[t].ok) =>
              (ret[t] = "ErrPluginUnavailable" /\ invoked[t] = <<>>)
        /\ pc[t] = "delegating" => (got[t].ok /\ got[t].c # NilClient /\ invoked[t] = <<>>)
        /\ \A i \in 1..Len(invoked[t]) : invoked[t][i].c # NilClient

\* C11 witness: CollectMetrics returns ErrPluginUnavailable on a plugin
\* with no plugin client, having invoked nothing
C11_Witness ==
    \E t \in Threads :
        /\ pc[t] = "cap_return" /\ method[t] = "CollectMetrics"
        /\ ret[t] = "ErrPluginUnavailable" /\ invoked[t] = <<>>
        /\ pluginClient = NilClient /\ client # 0

\* C12: when getPluginClient succeeded, the capability call has invoked
\* the method of its own name on the client it got exactly once, with the
\* caller's request, and returns what that invocation returned.
C12_DelegatesOnceVerbatim ==
    \A t \in Threads :
        (pc[t] = "cap_return" /\ got[t].ok) =>
            invoked[t] = <<Invocation(t, method[t], got[t].c, ret[t])>>

\* C12 witness: a delegated RunStream returns the client's transport error
C12_Witness ==
    \E t \in Threads :
        /\ pc[t] = "cap_return" /\ got[t].ok /\ method[t] = "RunStream"
        /\ ret[t] = "transport_error" /\ Len(invoked[t]) = 1

\* C13: getPluginClient returns (nil, false) exactly when the subprocess
\* handle is absent, or the subprocess has exited, or no plugin client is
\* published; otherwise it returns (c, true) with c the published client.
C13_GetPluginClientResult ==
    \A t \in Threads : (Grpc /\ Checking(t)) =>
        LET absent == client = 0
            exited == client # 0 /\ proc[client] = "exited"
            unpublished == pluginClient = NilClient
        IN  IF absent \/ exited \/ unpublished
            THEN getPluginClient = [c |-> NilClient, ok |-> FALSE]
            ELSE getPluginClient = [c |-> pluginClient, ok |-> TRUE] /\ pluginClient # NilClient

\* C13 witness: getPluginClient runs on a plugin whose subprocess is
\* running but whose Start published no plugin client
C13_Witness ==
    \E t \in Threads :
        /\ Checking(t) /\ client # 0 /\ proc[client] = "running"
        /\ pluginClient = NilClient /\ ~getPluginClient.ok

\* C14: Exited() returns true if Start was never called or the subprocess
\* of the current handle has terminated (also after Stop), and false
\* while the subprocess started by the latest Start is running.
C14_ExitedReports ==
    \A t \in Threads :
        /\ (Grpc /\ pc[t] = "exited_read") =>
              /\ nHandles = 0 => ExitedResult
              /\ (client # 0 /\ proc[client] = "exited") => ExitedResult
              /\ (client # 0 /\ proc[client] = "running") => (~ExitedResult /\ client = nHandles)
        /\ (Grpc /\ pc[t] = "exited_return") =>
              /\ ret[t] \in {"true", "false"}
              /\ ret[t] = "true" => (client = 0 \/ proc[client] = "exited")
              /\ ret[t] = "false" => client # 0

\* C14 witness: Exited() reports true after Stop killed a started subprocess
C14_Witness ==
    \E t \in Threads :
        /\ pc[t] = "exited_return" /\ ret[t] = "true"
        /\ lastStart = "ok" /\ stopSince /\ proc[client] = "exited"

\* C15: Stop returns nil in every state; before any Start it changes
\* nothing; after a Start it leaves the subprocess of the handle not
\* running; and a second Stop leaves the handle, the plugin client, the
\* decommissioned flag and the exited status as the first Stop left them.
C15_StopIsIdempotent ==
    \A t \in Threads : pc[t] = "stop_return" =>
        /\ ret[t] = "nil"
        /\ stopSnap # NoSnap
        /\ client # 0 => proc[client] # "running"
        /\ (stopSnap[1] = 0 \/ nStops = 2) =>
              /\ <<client, pluginClient, decommissioned>> = <<stopSnap[1], stopSnap[2], stopSnap[3]>>
              /\ client # 0 => proc[client] = stopSnap[4][client]
              /\ client = 0 => proc = stopSnap[4]

\* C15 witness: a second Stop has run on a plugin whose started
\* subprocess the first Stop killed
C15_Witness ==
    \E t \in Threads :
        /\ pc[t] = "stop_return" /\ nStops = 2 /\ lastStart = "ok"
        /\ client # 0 /\ proc[client] = "exited" /\ pluginClient # NilClient

\* C16: a Start that obtained the RPC connection invokes exactly one
\* client constructor: newClientV2 when the negotiated version is greater
\* than 1, newClientV1 when it is 1 or 0; whatever that constructor
\* returns, no other constructor is tried; a Start that did not obtain
\* the connection invokes none.
C16_OneConstructorByVersion ==
    \A t \in Threads :
        /\ (pc[t] = "start_check" \/ (pc[t] = "start_return" /\ ret[t] # "err_client")) =>
              /\ negotiated \in Versions
              /\ ctorCalls = <<IF negotiated > 1 THEN "v2" ELSE "v1">>
              /\ pluginClient # NilClient => pluginClient.kind = ctorCalls[1]
        /\ (pc[t] = "start_return" /\ ret[t] = "err_client") =>
              (ctorCalls = <<>> /\ negotiated = NoVersion)
        /\ pc[t] \in {"start_factory", "start_client", "start_negotiate"} => ctorCalls = <<>>

\* C16 witness: at version 2 newClientV2 failed and Start returns its
\* error without having tried newClientV1
C16_Witness ==
    \E t \in Threads :
        /\ pc[t] = "start_return" /\ ret[t] = "err_ctor"
        /\ negotiated = 2 /\ ctorCalls = <<"v2">>

\* the capabilities the legacy client lacks according to the claim
V1Missing == {"CollectMetrics", "CallResource", "SubscribeStream", "PublishStream", "RunStream"}

\* C17, for a running plugin: negotiated at version 1 (or 0) its calls go
\* to the legacy client and the streaming, resource and metrics calls
\* return ErrMethodNotImplemented; negotiated at version 2 every call is
\* delegated to the v2 client.
C17_RunningByVersion ==
    \A t \in Threads :
        /\ (Checking(t) /\ client # 0 /\ proc[client] = "running" /\ lastStart = "ok" /\ ~stopSince) =>
              /\ getPluginClient.ok
              /\ getPluginClient.c.kind = (IF negotiated > 1 THEN "v2" ELSE "v1")
        /\ (pc[t] = "cap_return" /\ got[t].ok /\ got[t].c.kind = "v1" /\ method[t] \in V1Missing) =>
              ret[t] = "ErrMethodNotImplemented"
        /\ (pc[t] = "cap_return" /\ got[t].ok /\ got[t].c.kind = "v2") =>
              (Len(invoked[t]) = 1 /\ ret[t] \notin {"ErrMethodNotImplemented", "ErrPluginUnavailable"})

\* C17: the above, and whenever no subprocess of the plugin is running a
\* capability call is refused with ErrPluginUnavailable whatever version
\* was negotiated, ErrPluginUnavailable being returned in no other case.
C17_ErrorsNotConfused ==
    /\ C17_RunningByVersion
    /\ \A t \in Threads :
          /\ (Checking(t) /\ \A h \in Handles : proc[h] # "running") => ~getPluginClient.ok
          /\ pc[t] = "cap_return" => (ret[t] = "ErrPluginUnavailable" <=> ~got[t].ok)

\* a Load call has decided what it returns, and its decoding succeeded
Loaded(fn) == load.fn = fn /\ loadRet # NoRet /\ loadRet.err.cause # "decode"

\* C18: Register with an id that is already registered returns an error
\* and leaves the registry as it was, the factory and instance stored for
\* the id not being replaced; RendererPlugin.Load then returns that
\* error, wrapped, and no plugin value.
C18_DuplicateRegisterRefused ==
    /\ \A id \in PluginIds, f \in Factories :
          plugins[id] # NoEntry =>
              (Register(id, f).err # "nil" /\ Register(id, f).plugins = plugins)
    /\ load # NoLoad =>
          \A id \in PluginIds : load.before[id] # NoEntry => plugins[id] = load.before[id]
    /\ (Loaded("RendererPlugin.Load") /\ load.before[load.id] # NoEntry) =>
          /\ plugins = load.before
          /\ loadRet = [value |-> "nil",
                        err |-> Wrapf("already_registered", "failed to register backend plugin")]
    /\ (Loaded("RendererPlugin.Load") /\ load.before[load.id] = NoEntry) =>
          /\ plugins[load.id] = [factory |-> load.factory, started |-> "no"]
          /\ loadRet = [value |-> "plugin", err |-> NilErr]

\* C18 witness: RendererPlugin.Load returns the error of registering,
\* with another factory, an id whose plugin was registered and started
C18_Witness ==
    /\ Loaded("RendererPlugin.Load")
    /\ loadRet.err.cause = "already_registered"
    /\ load.before[load.id].factory # load.factory
    /\ plugins[load.id].started = "ok"

\* C19: RegisterAndStart runs Start within the call and returns its
\* failure: DataSourcePlugin.Load then returns that error, wrapped, and
\* no plugin value, while the id stays registered, GetPlugin(id)
\* returning (instance, true) for the instance whose Start failed.
C19_StartFailureSurfaced ==
    (Loaded("DataSourcePlugin.Load") /\ load.backend /\ load.before[load.id] = NoEntry) =>
        /\ plugins[load.id].factory = load.factory
        /\ plugins[load.id].started \in {"ok", "failed"}
        /\ plugins[load.id].started = "ok" <=> loadRet = [value |-> "plugin", err |-> NilErr]
        /\ plugins[load.id].started = "failed" =>
              /\ loadRet.value = "nil"
              /\ loadRet.err.msg = "failed to register backend plugin"
              /\ loadRet.err.cause \in StartOutcomes \ {"nil"}
              /\ GetPlugin(load.id) = [p |-> [factory |-> load.factory, started |-> "failed"],
                                       ok |-> TRUE]

\* C19 witness: DataSourcePlugin.Load returns the failure to spawn of a
\* plugin that is now registered
C19_Witness ==
    /\ Loaded("DataSourcePlugin.Load") /\ load.backend
    /\ loadRet.value = "nil" /\ loadRet.err.cause = "err_client"
    /\ load.before[load.id] = NoEntry /\ GetPlugin(load.id).ok

\* C20, the exclusion: while a goroutine is in getPluginClient no Start
\* is between taking the lock and returning.
C20_NoReaderDuringStart ==
    \A t \in Threads : (Grpc /\ Checking(t)) =>
        /\ mutexW = 0
        /\ \A u \in Threads :
              pc[u] \notin {"start_factory", "start_client", "start_negotiate",
                            "start_check", "start_return"}

\* C20: a getPluginClient call concurrent with Start sees the state
\* before Start or the state after Start has returned, and never returns
\* (client, true) in a state where the handle is the one a Start
\* installed and the plugin client is still the one from before that
\* Start.
C20_PublicationIsAtomic ==
    /\ C20_NoReaderDuringStart
    /\ \A t \in Threads : (Grpc /\ Checking(t)) =>
          (getPluginClient.ok => getPluginClient.c.h = client)

\* C21, the frame: a step that changes the subprocess handle or the
\* plugin client is a step of Start, taken under the exclusive lock.
C21_OnlyStartWrites ==
    [][(client' # client \/ pluginClient' # pluginClient) =>
          (mutexW # 0 /\ pc[mutexW] \in {"start_factory", "start_negotiate"})]_vars

\* C21: the handle and the plugin client are changed only by Start, and
\* a plugin whose client is available becomes unavailable only by a step
\* in which the subprocess of its handle ends (killed by Stop, or exited).
C21_FrameOfHandleAndClient ==
    [][/\ (client' # client \/ pluginClient' # pluginClient) =>
             (mutexW # 0 /\ pc[mutexW] \in {"start_factory", "start_negotiate"})
       /\ (Grpc /\ getPluginClient.ok /\ ~getPluginClient.ok') =>
             (client' = client /\ proc[client] # "exited" /\ proc'[client] = "exited")]_vars

\* the positions of Start and Stop, from the call to the return
LifecyclePositions ==
    {"start_lock", "start_factory", "start_client", "start_negotiate", "start_check",
     "start_return", "stop_lock", "stop_body", "stop_return"}

\* C22: a goroutine in a delegated call holds neither the shared nor the
\* exclusive lock, and every Start or Stop that was called returns, whatever
\* the other goroutines do and even if a delegated call never returns.
C22_StartAndStopReturn ==
    /\ [](\A t \in Threads : pc[t] = "delegating" => (t \notin mutexR /\ mutexW # t))
    /\ \A t \in Threads : (pc[t] \in LifecyclePositions) ~> (pc[t] = "idle")

\* a Start waits for the lock while the other goroutine is in a delegated call
C22_Witness ==
    \E t, u \in Threads : pc[t] = "delegating" /\ pc[u] \in {"start_lock", "stop_lock"}

\* what a core plugin call of method m has returned, where so far any call returned
CoreReturned(t, m) == kind = "core" /\ pc[t] = "core_return" /\ method[t] = m

\* C23: a core plugin returns ErrMethodNotImplemented from CheckHealth,
\* CallResource, SubscribeStream, PublishStream and RunStream exactly when
\* the handler of that method was not supplied and the handler's own result
\* otherwise; CollectMetrics always returns ErrMethodNotImplemented; no call
\* returns ErrPluginUnavailable; Start, Stop and Decommission return nil,
\* Exited and IsDecommissioned return false, and no call changes any state.
C23_CoreAnswersByHandler ==
    kind = "core" =>
      /\ \A t \in Threads :
           /\ CoreReturned(t, "CollectMetrics") => ret[t] = "ErrMethodNotImplemented"
           /\ CoreReturned(t, "CheckHealth") =>
                IF "CheckHealthHandler" \in handlers
                THEN ret[t] \in {"result", "handler_error"}
                ELSE ret[t] = "ErrMethodNotImplemented"
           /\ CoreReturned(t, "CallResource") =>
                IF "CallResourceHandler" \in handlers
                THEN ret[t] \in {"result", "handler_error"}
                ELSE ret[t] = "ErrMethodNotImplemented"
           /\ \A m \in {"SubscribeStream", "PublishStream", "RunStream"} :
                CoreReturned(t, m) =>
                  IF "StreamHandler" \in handlers
                  THEN ret[t] \in {"result", "handler_error"}
                  ELSE ret[t] = "ErrMethodNotImplemented"
           /\ \A m \in {"Start", "Stop", "Decommission"} : CoreReturned(t, m) => ret[t] = "nil"
           /\ \A m \in {"Exited", "IsDecommissioned"} : CoreReturned(t, m) => ret[t] = "false"
           /\ pc[t] = "core_return" => ret[t] # "ErrPluginUnavailable"
      /\ client = 0 /\ pluginClient = NilClient /\ ~decommissioned
      /\ \A h \in Handles : proc[h] = "none"

\* after a Decommission has returned, PublishStream is answered by the stream
\* handler of a core plugin that has no resource handler, while another
\* goroutine gets ErrMethodNotImplemented from CallResource
C23_Witness ==
    /\ kind = "core" /\ decReturned
    /\ handlers = {"StreamHandler"}
    /\ \E t, u \in Threads :
         /\ CoreReturned(t, "PublishStream") /\ ret[t] = "result"
         /\ CoreReturned(u, "CallResource") /\ ret[u] = "ErrMethodNotImplemented"

\* C24: DataQuery returns the "can't handle data queries" error exactly when
\* it finds no client recorded; otherwise it sends the query to the recorded
\* v2 client, which has a DataPlugin, and to the recorded legacy client only
\* when no v2 client is recorded; it never dereferences a nil legacy client.
C24_DataQueryRouting ==
    [][(dq # "done" /\ dq' = "done") =>
         /\ dsRet'.route # "panic"
         /\ (dq = "idle") = (dsClient = NoDsClient /\ dsLegacyClient = NoDsClient)
         /\ (dq = "idle") = (dsRet'.route = "cant_handle")
         /\ dsRet'.route = "v2" => (dsClient.data /\ dsRet'.h = dsClient.h)
         /\ dsClient # NoDsClient => dsRet'.route \in {"v2", "cant_handle"}
         /\ dsRet'.route = "legacy" =>
               (dsClient = NoDsClient /\ dsLegacyClient # NoDsClient /\ dsRet'.h = dsLegacyClient.h)
      ]_vars

\* a query went to the legacy client after a v2 client without DataPlugin was offered
C24_Witness ==
    /\ dq = "done" /\ dsRet.route = "legacy"
    /\ dsStarted = 2 /\ dsClient = NoDsClient /\ dsLegacyClient.h = 1

\* C25: DataQuery never sends a query to a client whose subprocess has
\* been stopped or has exited.
C25_DataQueryUsesLiveClient ==
    (dq = "done" /\ dsRet.route \in {"v2", "legacy"}) => dsRet.live

\* Run has returned to its caller
RunReturned == runPc = "returned"

\* C26, without the naming of the failed service: Run returns only after
\* every goroutine it started has returned, a run error it returns names a
\* service that returned an error other than context.Canceled, and a
\* goroutine scheduled with the server context cancelled does not run
\* its service.
C26_RunWaitsAndSkips ==
    /\ [](RunReturned =>
            /\ \A s \in Services : svc[s] \in {"unstarted", "skipped", "returned"}
            /\ runRet.kind = "run error" => svcRet[runRet.name] = "error")
    /\ [][\A s \in Services :
            (svc[s] = "spawned" /\ context = "cancelled") =>
               (svc'[s] # "running" /\ svcRet'[s] = "none")]_vars

\* C26: Run returns only after every goroutine it started has returned; a
\* service that returns context.Canceled does not make Run fail; when a
\* service has returned any other error, Run returns an error that names a
\* service that did; a goroutine scheduled with the server context
\* cancelled does not run its service.
C26_RunReportsTheFailedService ==
    /\ [](RunReturned =>
            /\ \A s \in Services : svc[s] \in {"unstarted", "skipped", "returned"}
            /\ runRet.kind = "run error" => svcRet[runRet.name] = "error"
            /\ (\E s \in Services : svcRet[s] = "error") =>
                  (runRet.kind = "run error" /\ svcRet[runRet.name] = "error"))
    /\ [][\A s \in Services :
            (svc[s] = "spawned" /\ context = "cancelled") =>
               (svc'[s] # "running" /\ svcRet'[s] = "none")]_vars

\* C27: a Shutdown call returns nil only when Run has already finished
\* (shutdownFinished is closed), a call whose context has expired while Run
\* has not finished returns the timeout error, and s.shutdownFn is called
\* once, by the first Shutdown call.
C27_ShutdownReportsCompletion ==
    /\ [][\A c \in Callers :
            (shPc[c] # "returned" /\ shPc'[c] = "returned") =>
               /\ shErr'[c] = "nil" => shutdownFinished
               /\ (shCtx[c] = "expired" /\ ~shutdownFinished) =>
                     shErr'[c] = "timeout waiting for shutdown"]_vars
    /\ [](cancels = IF \E c \in Callers : shPc[c] # "idle" THEN 1 ELSE 0)

\* C27, the part about the server context: s.shutdownFn is called exactly
\* once however many Shutdown calls there are, and the first caller returns
\* nil only when Run has finished.
C27_CancelledOnce ==
    /\ [](cancels = IF \E c \in Callers : shPc[c] # "idle" THEN 1 ELSE 0)
    /\ [][\A c \in Callers :
            (shPc[c] = "select" /\ shPc'[c] = "returned" /\ shErr'[c] = "nil") =>
               shutdownFinished]_vars

\* the positions of a stream inside the loop of runTestStream
InLoop(s) == tsPc[s] \in {"select", "set", "marshal", "send"}

\* what C28 says of paths, Send errors and ticks that yield no packet:
\* an unsupported path returns an error and nothing of the stream happens;
\* a Send error ends the stream at once and is what it returns; a tick that
\* is dropped or cannot be marshalled sends nothing and leaves the stream
\* in its loop.
StreamSafety ==
    /\ [](\A s \in Streams :
            /\ tsRet[s] = "does not support path" =>
                  (tsPc[s] = "returned" /\ tsSent[s] = 0 /\ tsTick[s] = "none")
            /\ tsTick[s] = "send error" => (tsPc[s] = "returned" /\ tsRet[s] = "send error")
            /\ tsRet[s] = "send error" => tsTick[s] = "send error"
            /\ tsRet[s] = "ctx.Err()" => tsCtx[s] = "done")
    /\ [][\A s \in Streams :
            (tsTick'[s] # tsTick[s] /\ tsTick'[s] \in {"dropped", "unmarshalable"}) =>
               (tsSent'[s] = tsSent[s] /\ tsPc'[s] = "select" /\ tsRet'[s] = "none")]_vars

\* C28 as it stands, for the end of a stream whose context was cancelled
\* while it ran: what it has returned is ctx.Err().
C28_CancelledStreamReturnsCtxErr ==
    \A s \in Streams :
      (tsPc[s] = "returned" /\ tsCtx[s] = "done" /\ tsRet[s] # "does not support path") =>
         tsRet[s] = "ctx.Err()"

\* C28, amended: once its context is done a running stream returns, with
\* ctx.Err() or with the error of a Send that failed first; a Send error
\* ends the stream at once and is returned; an unsupported path returns an
\* error without starting a stream; a dropped or unmarshalable tick sends
\* nothing and does not end the stream.
C28_StreamEnds ==
    /\ StreamSafety
    /\ (InLoop(1) /\ tsCtx[1] = "done") ~>
          (tsPc[1] = "returned" /\ tsRet[1] \in {"ctx.Err()", "send error"})

\* a stream that sent a packet and dropped a tick has returned ctx.Err()
C28_Witness ==
    /\ tsPc[1] = "returned" /\ tsRet[1] = "ctx.Err()"
    /\ tsSent[1] >= 1 /\ tsTick[1] = "dropped"

\* C29: the frame a stream serialises into a packet holds, in every field,
\* the value that stream set for the tick.
C29_PacketHoldsOwnValues ==
    \A s \in Streams : tsPc[s] = "send" => \A f \in Fields : tsPacket[s][f] = s

\* C30: the credential is constructed at most once, every caller that gets
\* a credential gets the stored one, and a failed construction stores nothing.
C30_ConstructedOnce ==
    /\ constructed <= 1
    /\ \A g \in Getters :
         /\ (gcPc[g] = "returned" /\ gcRet[g].err = "nil") => gcRet[g].cred = credValue
         /\ (gcPc[g] = "returned" /\ gcRet[g].err = "error") => gcRet[g].cred = 0
    /\ constructed = 0 => credValue = 0

\* C30, the part about errors: while no construction has succeeded nothing
\* is stored and a caller that got an error got no credential, so the next
\* call finds credValue empty and constructs again.
C30_ErrorStoresNothing ==
    /\ constructed = 0 => credValue = 0
    /\ credValue \in 0..constructed
    /\ \A g \in Getters :
         (gcPc[g] = "returned" /\ gcRet[g].err = "error") => gcRet[g].cred = 0

====
